---------------------------- MODULE Spec2Model ----------------------------
(***************************************************************************)
(* A model of the asynchronous job poller (searchWithPolling) and of the   *)
(* multi-workflow update digest engine (getWorkflowUpdatesDigest,          *)
(* computeSignalScore, normalizeUrl, findCorrelations) of src/src/api.ts.  *)
(*                                                                         *)
(* Times of the poller are counted in ticks of 1/8 ms, so that the backoff *)
(* schedule 500, 750, 1125, 1687.5, 2531.25, 3796.875, 4000 ms is exact.   *)
(***************************************************************************)
EXTENDS Integers, Sequences, FiniteSets, TLC

VARIABLES
    \* ---- searchWithPolling ----
    pollParams,         \* params: generate_summary, extract_metadata, timeout_ms
    pollPc,             \* position in searchWithPolling
    initialResult,      \* const initialResult = await search(params)
    lastSuccessfulJob,  \* let lastSuccessfulJob
    currentInterval,    \* let currentInterval (ticks)
    elapsed,            \* Date.now() - startTime (ticks)
    job,                \* const job = await getSearchJob(jobId), of the last round
    pollResult,         \* what the call returned or threw
    fetches,            \* number of getSearchJob calls issued
    sleeps,             \* the durations slept so far (ticks)
    fetchOutcome,       \* history: how the HTTP exchange of the last fetch ended
    lastObserved,       \* history: the snapshot of the latest successful fetch
    \* ---- computeSignalScore ----
    scoreCtx,           \* the SignalScoringContext of the last call
    scoreOut,           \* what the call returned
    \* ---- findCorrelations ----
    corrIn,             \* the digests of the last call
    corrOut,            \* what the call returned
    \* ---- normalizeUrl ----
    normIn,             \* the URL string of the first call
    normOut,            \* what the first call returned
    normAgain,          \* what normalizeUrl returned for normOut
    \* ---- getWorkflowUpdatesDigest ----
    dgParams,           \* params: since, include_inactive, max_workflows, verbose, format
    dgNow,              \* Date.now() (hours)
    dgPc,               \* position in getWorkflowUpdatesDigest
    listQuery,          \* the query string of the listing request
    workflows,          \* workflows.workflows, as the remote returned them
    branch,             \* per listed workflow: the position of its async callback
                        \* and how its two fetches ended
    workflowDigests,    \* per listed workflow: the digest its callback resolved to
    requests,           \* history: the timeline and diff requests issued
    response,           \* what the call returned
    \* ---- generateBriefingMarkdown ----
    briefIn,            \* the digests a briefing is asked for
    briefOut            \* the response that carries the briefing

pollVars == <<pollParams, pollPc, initialResult, lastSuccessfulJob,
              currentInterval, elapsed, job, pollResult, fetches, sleeps,
              fetchOutcome, lastObserved>>

scoreVars == <<scoreCtx, scoreOut>>

corrVars == <<corrIn, corrOut>>

normVars == <<normIn, normOut, normAgain>>

digestVars == <<dgParams, dgNow, dgPc, listQuery, workflows, branch, workflowDigests,
                requests, response>>

briefVars == <<briefIn, briefOut>>

vars == <<pollVars, scoreVars, corrVars, normVars, digestVars, briefVars>>

\* What a call of one operation leaves alone: the state of the other operations
nonPollVars == <<scoreVars, corrVars, normVars, digestVars, briefVars>>
nonScoreVars == <<pollVars, corrVars, normVars, digestVars, briefVars>>
nonCorrVars == <<pollVars, scoreVars, normVars, digestVars, briefVars>>
nonNormVars == <<pollVars, scoreVars, corrVars, digestVars, briefVars>>
nonDigestVars == <<pollVars, scoreVars, corrVars, normVars, briefVars>>
nonBriefVars == <<pollVars, scoreVars, corrVars, normVars, digestVars>>

-----------------------------------------------------------------------------
(* Values shared by the components *)

\* JavaScript's undefined and an absent optional field; also null, wherever
\* the code treats null as it treats undefined
Null == [type |-> "null"]

\* A JSON null in a field where the code tells null from undefined: the
\* change_rate of the stats of a diff
JsonNull == [type |-> "jsonnull"]

\* A JSON number and a JSON array, told apart from null by their type
Num(n) == [type |-> "number", value |-> n]
Bool(b) == [type |-> "boolean", value |-> b]
Str(t) == [type |-> "string", value |-> t]
Array(items) == [type |-> "array", items |-> items]

\* An optional field of an object: Null when the object does not carry it
Field(d, f) == IF f \in DOMAIN d THEN d[f] ELSE Null

\* The truthiness of a value that is a boolean or missing
Truthy(v) == v.type = "boolean" /\ v.value

Min(a, b) == IF a <= b THEN a ELSE b
Max(a, b) == IF a >= b THEN a ELSE b

-----------------------------------------------------------------------------
(* searchWithPolling: src/src/api.ts 126-348 *)

\* DEFAULT_POLL_CONFIG, in ms
initialInterval == 500
maxInterval == 4000
maxDurationDefault == 60000

\* 1 ms = 8 ticks
Ticks(ms) == ms * 8

\* The number of snapshot fetches after which the model stops following a run
MaxFetches == 4

\* A job summary: null, a legacy string (possibly empty) or an object with a status
SummaryNull == [type |-> "null", text |-> "", status |-> ""]
SummaryString(t) == [type |-> "string", text |-> t, status |-> ""]
SummaryObject(s) == [type |-> "object", text |-> "", status |-> s]
Summaries ==
    {SummaryNull, SummaryString(""), SummaryString("text")}
      \cup {SummaryObject(s) : s \in {"processing", "completed", "failed"}}

\* query_interpretation?.metadata_status; "absent" stands for undefined
MetadataStatuses == {"absent", "processing", "completed", "failed"}

JobStatuses == {"pending", "completed", "failed"}

\* A SearchJobResponse; seq tells the responses of one run apart (0: the
\* submission response, k: the response of the k-th fetch)
Snapshot(n, st, su, me) ==
    [type |-> "job", seq |-> n, status |-> st, summary |-> su, metadata_status |-> me]

Snapshots(n) ==
    {Snapshot(n, st, su, me) : st \in JobStatuses, su \in Summaries, me \in MetadataStatuses}

\* The submission responses the model follows
InitialSnapshots ==
    {Snapshot(0, st, su, "absent") :
        st \in {"pending", "failed"}, su \in {SummaryNull, SummaryObject("processing")}}

\* timeout_ms as the caller gives it (ms); Null when omitted
TimeoutInputs == {Null, Num(0), Num(1000), Num(2000)}

\* How long a fetch takes (ms)
FetchDurations == {0, 600}

\* What the HTTP exchange of getSearchJob can end in
FetchOutcomes(n) ==
    {[kind |-> "http_error"], [kind |-> "network_error"], [kind |-> "null_body"]}
      \cup {[kind |-> "ok", body |-> s] : s \in Snapshots(n)}

\* JavaScript truthiness of a summary value
TruthySummary(su) ==
    CASE su.type = "null" -> FALSE
      [] su.type = "string" -> su.text # ""
      [] OTHER -> TRUE

\* getSearchJob: null on a non-2xx response and on any exception
getSearchJob(outcome) ==
    IF outcome.kind = "ok" THEN outcome.body ELSE Null

\* JavaScript truthiness of what getSearchJob returned
TruthyJob(j) == j.type = "job"

\* lines 313-324
summaryDone(params, j) ==
    IF params.generate_summary /\ TruthySummary(j.summary)
    THEN IF j.summary.type = "string"
         THEN TRUE
         ELSE j.summary.status \in {"completed", "failed"}
    ELSE ~params.generate_summary

\* lines 326-329
metadataDone(params, j) ==
    \/ ~params.extract_metadata
    \/ j.metadata_status = "completed"
    \/ j.metadata_status = "failed"

\* line 286
BudgetMutantSeconds(params) ==
    IF params.timeout_ms = Null THEN Ticks(maxDurationDefault)
    ELSE Ticks(params.timeout_ms.value * 1000)

maxDuration(params) ==
    IF params.timeout_ms = Null THEN Ticks(maxDurationDefault)
    ELSE Ticks(params.timeout_ms.value)

\* lines 337-340: Math.min(currentInterval * 1.5, maxInterval)
IntervalMutantNoCap(cur) == (3 * cur) \div 2

NextInterval(cur) ==
    IF 3 * cur >= 2 * Ticks(maxInterval) THEN Ticks(maxInterval) ELSE (3 * cur) \div 2

\* line 300: which snapshot is retained after a round
RetainedMutantOverwrite(last, j) == j

RetainedMutantNeverUpdated(last, j) == last

RetainedJob(last, j) == IF TruthyJob(j) THEN j ELSE last

\* lines 299-334: what a round does with the fetched job
RoundMutantDoneFirst(params, j) ==
    IF ~TruthyJob(j) THEN [kind |-> "continue"]
    ELSE IF summaryDone(params, j) /\ metadataDone(params, j)
         THEN [kind |-> "return", value |-> j]
    ELSE IF j.status = "failed" THEN [kind |-> "throw", details |-> j]
    ELSE [kind |-> "continue"]

RoundMutantAbortOnNull(params, j) ==
    IF ~TruthyJob(j) THEN [kind |-> "throw", details |-> j]
    ELSE IF j.status = "failed" THEN [kind |-> "throw", details |-> j]
    ELSE IF summaryDone(params, j) /\ metadataDone(params, j)
         THEN [kind |-> "return", value |-> j]
    ELSE [kind |-> "continue"]

RoundOutcome(params, j) ==
    IF ~TruthyJob(j) THEN [kind |-> "continue"]
    ELSE IF j.status = "failed" THEN [kind |-> "throw", details |-> j]
    ELSE IF summaryDone(params, j) /\ metadataDone(params, j)
         THEN [kind |-> "return", value |-> j]
    ELSE [kind |-> "continue"]

\* line 279
NeedsPollingMutantAlways(params) == TRUE

needsPolling(params) == params.generate_summary \/ params.extract_metadata

PollParamInputs ==
    [generate_summary : BOOLEAN, extract_metadata : BOOLEAN, timeout_ms : TimeoutInputs]

NoResult == [kind |-> "none", why |-> "running"]

PollInit ==
    /\ pollParams \in PollParamInputs
    /\ pollPc = "search"
    /\ initialResult = Null
    /\ lastSuccessfulJob = Null
    /\ currentInterval = 0
    /\ elapsed = 0
    /\ job = Null
    /\ pollResult = NoResult
    /\ fetches = 0
    /\ sleeps = <<>>
    /\ fetchOutcome = "none"
    /\ lastObserved = Null

PollIdle ==
    /\ pollParams = Null
    /\ pollPc = "idle"
    /\ initialResult = Null
    /\ lastSuccessfulJob = Null
    /\ currentInterval = 0
    /\ elapsed = 0
    /\ job = Null
    /\ pollResult = NoResult
    /\ fetches = 0
    /\ sleeps = <<>>
    /\ fetchOutcome = "none"
    /\ lastObserved = Null

\* lines 277-292: the submission; search() throws on a non-2xx response
Search ==
    /\ pollPc = "search"
    /\ \/ /\ pollPc' = "thrown"
          /\ pollResult' = [kind |-> "throw", why |-> "search_failed"]
          /\ UNCHANGED <<initialResult, lastSuccessfulJob, currentInterval, lastObserved>>
       \/ \E s \in InitialSnapshots :
            /\ initialResult' = s
            /\ lastObserved' = s
            /\ IF ~needsPolling(pollParams)
               THEN /\ pollPc' = "returned"
                    /\ pollResult' = [kind |-> "return", why |-> "no_polling", value |-> s]
                    /\ UNCHANGED <<lastSuccessfulJob, currentInterval>>
               ELSE /\ pollPc' = "test"
                    /\ pollResult' = NoResult
                    /\ lastSuccessfulJob' = s
                    /\ currentInterval' = Ticks(initialInterval)
    /\ UNCHANGED nonPollVars
    /\ UNCHANGED <<pollParams, elapsed, job, fetches, sleeps, fetchOutcome>>

\* line 294 and lines 343-347: the loop test, and the return on timeout
LoopTestWithin(rounds) ==
    /\ pollPc = "test"
    /\ IF elapsed < maxDuration(pollParams)
       THEN /\ fetches < rounds
            /\ pollPc' = "sleep"
            /\ UNCHANGED pollResult
       ELSE /\ pollPc' = "returned"
            /\ pollResult' = [kind |-> "return", why |-> "timeout",
                              value |-> lastSuccessfulJob]
    /\ UNCHANGED nonPollVars
    /\ UNCHANGED <<pollParams, initialResult, lastSuccessfulJob, currentInterval,
                   elapsed, job, fetches, sleeps, fetchOutcome, lastObserved>>

LoopTest == LoopTestWithin(MaxFetches)

\* line 295
Sleep ==
    /\ pollPc = "sleep"
    /\ pollPc' = "fetch"
    /\ elapsed' = elapsed + currentInterval
    /\ sleeps' = Append(sleeps, currentInterval)
    /\ UNCHANGED nonPollVars
    /\ UNCHANGED <<pollParams, initialResult, lastSuccessfulJob, currentInterval,
                   job, pollResult, fetches, fetchOutcome, lastObserved>>

\* lines 297-340: one fetch and the rest of the round
FetchFrom(outcomes) ==
    /\ pollPc = "fetch"
    /\ \E o \in outcomes, d \in FetchDurations :
         LET j == getSearchJob(o)
             r == RoundOutcome(pollParams, j)
         IN /\ job' = j
            /\ fetchOutcome' = o.kind
            /\ fetches' = fetches + 1
            /\ elapsed' = elapsed + Ticks(d)
            /\ lastSuccessfulJob' = RetainedJob(lastSuccessfulJob, j)
            /\ lastObserved' = IF o.kind = "ok" THEN o.body ELSE lastObserved
            /\ CASE r.kind = "throw" ->
                      /\ pollPc' = "thrown"
                      /\ pollResult' = [kind |-> "throw", why |-> "job_failed",
                                        details |-> r.details]
                      /\ UNCHANGED currentInterval
                 [] r.kind = "return" ->
                      /\ pollPc' = "returned"
                      /\ pollResult' = [kind |-> "return", why |-> "complete",
                                        value |-> r.value]
                      /\ UNCHANGED currentInterval
                 [] OTHER ->
                      /\ pollPc' = "test"
                      /\ currentInterval' = NextInterval(currentInterval)
                      /\ UNCHANGED pollResult
    /\ UNCHANGED nonPollVars
    /\ UNCHANGED <<pollParams, initialResult, sleeps>>

Fetch == FetchFrom(FetchOutcomes(fetches + 1))

\* DEFAULT_FETCH_TIMEOUT (line 140), in ms: the timeout createTimeoutSignal
\* would give a fetch
DEFAULT_FETCH_TIMEOUT == 30000

\* How long the runtime's fetch waits for the headers of a response before it
\* rejects, when the request carries no signal (Node: 300 s), in ms
runtimeHeadersTimeout == 300000

\* line 297, getSearchJob lines 231-249: the fetch is issued without an abort
\* signal, so when the remote never answers, the await settles only when the
\* runtime gives up: fetch rejects, the catch block returns null and the round
\* goes on as after any failed fetch
FetchUnanswered ==
    /\ pollPc = "fetch"
    /\ job' = getSearchJob([kind |-> "no_response"])
    /\ fetchOutcome' = "no_response"
    /\ fetches' = fetches + 1
    /\ elapsed' = elapsed + Ticks(runtimeHeadersTimeout)
    /\ lastSuccessfulJob' = RetainedJob(lastSuccessfulJob, job')
    /\ pollPc' = "test"
    /\ currentInterval' = NextInterval(currentInterval)
    /\ UNCHANGED nonPollVars
    /\ UNCHANGED <<pollParams, initialResult, pollResult, sleeps, lastObserved>>

\* The steps of a call all of whose fetches are answered
PollNextAnswered == Search \/ LoopTest \/ Sleep \/ Fetch

PollNext == PollNextAnswered \/ FetchUnanswered

\* lines 291 and 337-340: the interval slept in round k, and the time slept in
\* the first n rounds
RECURSIVE IntervalAt(_)
IntervalAt(k) ==
    IF k = 1 THEN Ticks(initialInterval) ELSE NextInterval(IntervalAt(k - 1))

RECURSIVE SleptAfter(_)
SleptAfter(n) == IF n = 0 THEN 0 ELSE SleptAfter(n - 1) + IntervalAt(n)

\* The number of rounds within which the budget of a call followed to its end
\* runs out
MaxFairRounds == 2

\* The calls whose budget runs out within MaxFairRounds rounds
PollInitBounded ==
    /\ PollInit
    /\ pollParams.timeout_ms # Null
    /\ Ticks(pollParams.timeout_ms.value) <= SleptAfter(Min(MaxFairRounds, MaxFetches))




\* The number of rounds the model follows a call whose fetches keep failing
\* or keep returning an unfinished job
MaxBackoffRounds == 8

\* The fetch outcomes of such a call: a failed exchange, a job still being
\* summarized, a finished job
BackoffOutcomes(n) ==
    {[kind |-> "http_error"],
     [kind |-> "ok", body |-> Snapshot(n, "pending", SummaryObject("processing"), "absent")],
     [kind |-> "ok", body |-> Snapshot(n, "completed", SummaryObject("completed"), "absent")]}

\* A call that asks for a summary within the default budget
PollInitBackoff ==
    /\ PollInit
    /\ pollParams.generate_summary
    /\ ~pollParams.extract_metadata
    /\ pollParams.timeout_ms = Null

BackoffLoopTest == LoopTestWithin(MaxBackoffRounds)

BackoffFetch == FetchFrom(BackoffOutcomes(fetches + 1))

BackoffNext == Search \/ BackoffLoopTest \/ Sleep \/ BackoffFetch

-----------------------------------------------------------------------------
(* computeSignalScore: src/src/api.ts 1106-1218 *)

\* A new_urls entry (NewUrlSummary); document_type "" stands for an absent one
UrlObj(u, dt) == [url |-> u, document_type |-> dt]

\* The state of diff.latest: net_new_urls, new_domains_count, extraction_changes
LatestState(urls, nd, ec) ==
    [net_new_urls |-> urls, new_domains_count |-> nd, extraction_changes |-> ec]

\* One entry of diff.diffs (ExecutionDiff): changes is the sequence of the
\* change_type of its FieldChange entries, Null when the field is missing
ExecDiff(hc, ch, su) == [has_changes |-> hc, changes |-> ch, summary |-> su]

\* A WorkflowDiffResponse
Diff(te, st, ds, la) ==
    [type |-> "diff", total_executions |-> te, stats |-> st, diffs |-> ds, latest |-> la]

\* A Workflow of the listing; priority is operation_config?.priority ("" when
\* absent), last_execution_at a time or Null
Workflow(i, st, pr, le) ==
    [id |-> i, name |-> <<"name", i>>, status |-> st, priority |-> pr,
     last_execution_at |-> le]

highSignalDocTypes ==
    {"legal_regulatory", "academic_research", "news_editorial", "government"}

\* ctx.diff.stats?.change_rate || 0
churnRateOf(diff) ==
    IF diff.stats = Null THEN 0
    ELSE IF diff.stats.change_rate.type # "number" THEN 0
    ELSE diff.stats.change_rate.value

\* ctx.diff.latest?.state
latestStateOf(diff) ==
    IF diff.latest = Null THEN Null ELSE diff.latest.state

\* ctx.newUrls?.some(u => u.document_type && highSignalDocTypes.includes(..))
HighSignalMutantFirstOnly(newUrls) ==
    /\ newUrls # Null
    /\ Len(newUrls.items) > 0
    /\ newUrls.items[1].document_type \in highSignalDocTypes

hasHighSignalDocs(newUrls) ==
    /\ newUrls # Null
    /\ \E i \in 1..Len(newUrls.items) :
          newUrls.items[i].document_type \in highSignalDocTypes

\* ctx.newUrls?.length || 0
newUrlCountOf(newUrls) == IF newUrls = Null THEN 0 ELSE Len(newUrls.items)

\* lines 1127-1196: the additive terms, as <<points, reason>> pairs in the
\* order of the code; reason "" is a term the code gives no reason for
ScoreTerms(ctx) ==
    LET priority == ctx.workflow.priority
        churnRate == churnRateOf(ctx.diff)
        latestState == latestStateOf(ctx.diff)
        newDomains == IF latestState = Null THEN Null ELSE latestState.new_domains_count
        extractionChanges ==
            IF latestState = Null THEN Null ELSE latestState.extraction_changes
        newUrlCount == newUrlCountOf(ctx.newUrls)
    IN  (IF priority = "high" THEN <<<<25, "high-priority workflow">>>>
         ELSE IF priority = "low" THEN <<<<0 - 15, "low-priority workflow">>>>
         ELSE <<>>)
        \o (IF ctx.triggeredCondition THEN <<<<30, "stop condition triggered">>>> ELSE <<>>)
        \o (IF hasHighSignalDocs(ctx.newUrls)
            THEN <<<<20, "contains regulatory/academic/news content">>>> ELSE <<>>)
        \o (IF churnRate > 50 THEN <<<<0 - 15, "high churn rate">>>>
            ELSE IF churnRate > 0 /\ churnRate <= 20 THEN <<<<5, "">>>>
            ELSE <<>>)
        \o (IF newDomains # Null /\ newDomains.value > 0
            THEN <<<<10, "new source(s)">>>> ELSE <<>>)
        \o (IF extractionChanges # Null /\ Len(extractionChanges.items) > 0
            THEN <<<<15, "extraction data changed">>>> ELSE <<>>)
        \o (IF newUrlCount >= 5 THEN <<<<10, "new URLs">>>>
            ELSE IF newUrlCount > 0 THEN <<<<5, "">>>>
            ELSE <<>>)

RECURSIVE SumPoints(_)
SumPoints(terms) ==
    IF terms = <<>> THEN 0 ELSE Head(terms)[1] + SumPoints(Tail(terms))

\* The reasons pushed, in order
RECURSIVE ReasonsOf(_)
ReasonsOf(terms) ==
    IF terms = <<>> THEN <<>>
    ELSE (IF Head(terms)[2] = "" THEN <<>> ELSE <<Head(terms)[2]>>)
         \o ReasonsOf(Tail(terms))

\* line 1124
baselineScore == 50

\* line 1199: Math.max(0, Math.min(100, score))
ClampMutantNone(score) == score

ClampScore(score) == Max(0, Min(100, score))

\* lines 1202-1211
LevelMutantStrict(score) ==
    IF score > 80 THEN "urgent"
    ELSE IF score > 60 THEN "notable"
    ELSE IF score > 40 THEN "routine"
    ELSE "noise"

SignalLevelOf(score) ==
    IF score >= 80 THEN "urgent"
    ELSE IF score >= 60 THEN "notable"
    ELSE IF score >= 40 THEN "routine"
    ELSE "noise"

computeSignalScore(ctx) ==
    LET terms == ScoreTerms(ctx)
        score == ClampScore(baselineScore + SumPoints(terms))
        reasons == ReasonsOf(terms)
    IN  [score |-> score,
         level |-> SignalLevelOf(score),
         reasoning |-> IF Len(reasons) > 0 THEN reasons ELSE <<"baseline activity">>]

\* The scoring inputs the model draws from
ChangeRateInputs == {Null, Num(0), Num(10), Num(20), Num(21), Num(50), Num(51), Num(100)}

\* The largest number of new URLs of a scoring input
MaxNewUrls == 6

NewUrlInputs ==
    {Null}
      \cup {Array([i \in 1..n |-> UrlObj("u", "")]) : n \in 0..MaxNewUrls}
      \cup {Array([i \in 1..n |-> UrlObj("u", IF i = n THEN dt ELSE "")]) :
              n \in 1..MaxNewUrls, dt \in {"news_editorial", "government", "blog"}}
      \cup {Array([i \in 1..n |-> UrlObj("u", "news_editorial")]) : n \in 1..MaxNewUrls}

LatestInputs ==
    {Null, [state |-> Null]}
      \cup {[state |-> LatestState(Null, nd, ec)] :
              nd \in {Null, Num(0), Num(2)},
              ec \in {Null, Array(<<>>), Array(<<"price">>)}}

ScoreInputs ==
    [diff : {Diff(1, IF cr = Null THEN Null ELSE [change_rate |-> cr], Null, la) :
                cr \in ChangeRateInputs, la \in LatestInputs},
     workflow : {Workflow(1, "active", pr, Null) : pr \in {"high", "low", "", "medium"}},
     newUrls : NewUrlInputs,
     triggeredCondition : BOOLEAN]

ScoreIdle == scoreCtx = Null /\ scoreOut = Null

\* One call of computeSignalScore on an input of the model
ScoreCall ==
    /\ scoreCtx = Null
    /\ \E ctx \in ScoreInputs :
         /\ scoreCtx' = ctx
         /\ scoreOut' = computeSignalScore(ctx)
    /\ UNCHANGED nonScoreVars



-----------------------------------------------------------------------------
(* normalizeUrl, findCorrelations: src/src/api.ts 1220-1359 *)

\* A URL string, by what new URL() makes of it: ok tells whether it parses; a
\* string that parses is the scheme, the host, the path it writes as its
\* segments ("/x/" is <<"x", "">>, "/" is <<"">>, and <<>> when the string
\* writes no path, as in "https://example.com"), the names of its query
\* parameters, whose values are not followed and hold no "/", and the
\* fragment; one that does not parse is its text
Url(sc, h, pa, q, f) ==
    [ok |-> TRUE, scheme |-> sc, host |-> h, path |-> pa, query |-> q, hash |-> f]
BadUrl(t) == [ok |-> FALSE, raw |-> t]

trackingParams ==
    {"utm_source", "utm_medium", "utm_campaign", "utm_term", "utm_content",
     "ref", "source", "fbclid", "gclid", "mc_cid", "mc_eid"}

\* lines 1247-1249: u.pathname.endsWith("/") && u.pathname !== "/" -> slice(0, -1)
PathMutantKeepSlash(path) == path

StripTrailingSlash(path) ==
    IF path[Len(path)] = "" /\ path # <<"">>
    THEN SubSeq(path, 1, Len(path) - 1)
    ELSE path

\* lines 1224-1255; u.pathname is "/" for a URL string that writes no path
normalizeUrl(url) ==
    IF ~url.ok THEN url
    ELSE LET pathname == IF url.path = <<>> THEN <<"">> ELSE url.path
         IN  Url("https", url.host, StripTrailingSlash(pathname),
                 url.query \ trackingParams, "")

MAX_WORKFLOWS_FOR_CORRELATION == 15

\* lines 1284 and 1289: d.has_changes && d.new_urls && d.new_urls.length > 0
EligibleDigest(d) ==
    /\ Truthy(d.has_changes)
    /\ Field(d, "new_urls") # Null
    /\ Len(d.new_urls.items) > 0

\* Array.prototype.slice(0, n)
TakeMutantAll(seq, n) == seq

Take(seq, n) == SubSeq(seq, 1, Min(n, Len(seq)))

\* lines 1319-1327: the <<digest, urlObj>> pairs in the order the loops visit them
RECURSIVE UrlEntries(_)
UrlEntries(digests) ==
    IF digests = <<>> THEN <<>>
    ELSE LET d == Head(digests)
         IN  [i \in 1..Len(d.new_urls.items) |->
                 [digest |-> d, urlObj |-> d.new_urls.items[i],
                  normalizedUrl |-> normalizeUrl(d.new_urls.items[i].url)]]
             \o UrlEntries(Tail(digests))

\* The keys of the Map urlToWorkflows, in insertion order
RECURSIVE MapKeys(_, _)
MapKeys(entries, seen) ==
    IF entries = <<>> THEN <<>>
    ELSE IF Head(entries).normalizedUrl \in seen THEN MapKeys(Tail(entries), seen)
    ELSE <<Head(entries).normalizedUrl>>
         \o MapKeys(Tail(entries), seen \cup {Head(entries).normalizedUrl})

\* urlToWorkflows.get(url)
WorkflowListOf(entries, url) ==
    SelectSeq(entries, LAMBDA e : e.normalizedUrl = url)

\* line 1333: which map entries become a correlation
SharedMutantAny(workflowList) == Len(workflowList) >= 1

IsShared(workflowList) == Len(workflowList) >= 2

\* lines 1335-1344
CorrelationOf(url, workflowList) ==
    [type |-> "shared_url",
     value |-> url,
     workflows |-> [i \in 1..Len(workflowList) |->
                      [workflow_id |-> workflowList[i].digest.workflow_id,
                       workflow_name |-> workflowList[i].digest.workflow_name]],
     insight |-> Len(workflowList)]

\* line 1349: the comparator puts a strictly before b (most shared first)
CorrelationBefore(a, b) == Len(a.workflows) > Len(b.workflows)

\* Array.prototype.sort, which is stable: an insertion sort
RECURSIVE InsertCorrelation(_, _)
InsertCorrelation(x, sorted) ==
    IF sorted = <<>> THEN <<x>>
    ELSE IF CorrelationBefore(x, Head(sorted)) THEN <<x>> \o sorted
    ELSE <<Head(sorted)>> \o InsertCorrelation(x, Tail(sorted))

RECURSIVE SortCorrelations(_)
SortCorrelations(seq) ==
    IF seq = <<>> THEN <<>>
    ELSE InsertCorrelation(seq[Len(seq)], SortCorrelations(SubSeq(seq, 1, Len(seq) - 1)))

RECURSIVE SumUrls(_)
SumUrls(digests) ==
    IF digests = <<>> THEN 0
    ELSE (IF Head(digests).new_urls = Null THEN 0 ELSE Len(Head(digests).new_urls.items))
         + SumUrls(Tail(digests))

\* lines 1274-1359
findCorrelations(digests) ==
    LET allEligible == SelectSeq(digests, EligibleDigest)
        eligibleDigests == Take(allEligible, MAX_WORKFLOWS_FOR_CORRELATION)
        workflowsSkipped == Max(0, Len(allEligible) - MAX_WORKFLOWS_FOR_CORRELATION)
        entries == UrlEntries(eligibleDigests)
        keys == MapKeys(entries, {})
        shared == SelectSeq(keys, LAMBDA k : IsShared(WorkflowListOf(entries, k)))
        correlations ==
            [i \in 1..Len(shared) |-> CorrelationOf(shared[i], WorkflowListOf(entries, shared[i]))]
    IN  IF Len(eligibleDigests) < 2
        THEN [correlations |-> <<>>,
              metadata |-> [workflows_analyzed |-> Len(eligibleDigests),
                            workflows_skipped |-> workflowsSkipped,
                            total_urls_compared |-> SumUrls(eligibleDigests)]]
        ELSE [correlations |-> SortCorrelations(correlations),
              metadata |-> [workflows_analyzed |-> Len(eligibleDigests),
                            workflows_skipped |-> workflowsSkipped,
                            total_urls_compared |-> Len(entries)]]

\* The URLs the model draws from: two spellings of https://example.com/x, another
\* page, and a string that does not parse
CorrUrlInputs ==
    {Url("https", "example.com", <<"x">>, {"utm_source"}, ""),
     Url("http", "example.com", <<"x", "">>, {}, ""),
     Url("https", "example.com", <<"y">>, {}, ""),
     BadUrl("not a url")}

\* The largest number of digests, and of new URLs over all its digests, of a
\* findCorrelations input
MaxCorrDigests == 3
MaxCorrUrls == 3

\* The digests of an input: the fields findCorrelations reads
CorrDigest(i, hc, nu) ==
    [workflow_id |-> i, workflow_name |-> <<"name", i>>, has_changes |-> Bool(hc),
     new_urls |-> nu]

\* The arrays of n URL objects
UrlArrays(n) ==
    {Array([i \in 1..n |-> UrlObj(f[i], "")]) : f \in [1..n -> CorrUrlInputs]}

\* The digests at position i that hold k URLs: for every k those with changes,
\* and for k <= 1 also the kinds of digest that are not eligible
CorrDigestsAt(i, k) ==
    {CorrDigest(i, TRUE, a) : a \in UrlArrays(k)}
      \cup (IF k = 0 THEN {CorrDigest(i, TRUE, Null), CorrDigest(i, FALSE, Array(<<>>))}
            ELSE IF k = 1
            THEN {CorrDigest(i, FALSE, Array(<<UrlObj(BadUrl("not a url"), "")>>))}
            ELSE {})

CorrIdle == corrIn = Array(<<>>) /\ corrOut = Null

\* The caller builds the list of digests it passes, one digest at a time
CorrAddDigest ==
    /\ corrOut = Null
    /\ Len(corrIn.items) < MaxCorrDigests
    /\ \E k \in 0..(MaxCorrUrls - SumUrls(corrIn.items)) :
         \E d \in CorrDigestsAt(Len(corrIn.items) + 1, k) :
            corrIn' = Array(Append(corrIn.items, d))
    /\ UNCHANGED corrOut
    /\ UNCHANGED nonCorrVars

\* One call of findCorrelations on the list built
CorrCall ==
    /\ corrOut = Null
    /\ corrOut' = findCorrelations(corrIn.items)
    /\ UNCHANGED corrIn
    /\ UNCHANGED nonCorrVars

CorrNext == CorrAddDigest \/ CorrCall

\* ---- findCorrelations called on more digests than it analyzes ----

\* The largest number of digests of such an input
MaxCapDigests == 17

\* A page only the digest at position i lists
OwnPage(i) == Url("https", "example.com", [k \in 1..i |-> "w"], {}, "")

\* The page several digests list
SharedPage == Url("https", "example.com", <<"x">>, {"utm_source"}, "")

\* Whether a digest lists the shared page
ListsSharedPage(d) ==
    /\ d.new_urls # Null
    /\ \E n \in 1..Len(d.new_urls.items) : d.new_urls.items[n].url = SharedPage

\* The digests that can come next in the list: one with changes and a page of
\* its own; one with changes and the shared page, as long as fewer than two
\* digests with changes list it; one that is not eligible (no changes, or no
\* URL), as long as the list holds none
CapDigestsAfter(items) ==
    LET i == Len(items) + 1
    IN  {CorrDigest(i, TRUE, Array(<<UrlObj(OwnPage(i), "")>>))}
          \cup (IF Len(SelectSeq(items, LAMBDA d : Truthy(d.has_changes) /\ ListsSharedPage(d))) < 2
                THEN {CorrDigest(i, TRUE, Array(<<UrlObj(SharedPage, "")>>))}
                ELSE {})
          \cup (IF Len(SelectSeq(items, LAMBDA d : ~EligibleDigest(d))) < 1
                THEN {CorrDigest(i, FALSE, Array(<<UrlObj(SharedPage, "")>>)),
                      CorrDigest(i, TRUE, Array(<<>>))}
                ELSE {})

\* The caller builds the list of digests it passes, one digest at a time
CorrCapAddDigest ==
    /\ corrOut = Null
    /\ Len(corrIn.items) < MaxCapDigests
    /\ \E d \in CapDigestsAfter(corrIn.items) :
          corrIn' = Array(Append(corrIn.items, d))
    /\ UNCHANGED corrOut
    /\ UNCHANGED nonCorrVars

CorrCapNext == CorrCapAddDigest \/ CorrCall

\* ---- normalizeUrl called on its own result ----

\* The largest number of segments of the path of a URL the model draws
MaxPathLen == 3

\* The URL strings the model draws: every combination of scheme, path (empty
\* segments are the slashes that follow one another or end the path), query
\* parameters and fragment, a URL without a path, and two strings that do not
\* parse
NormUrlInputs ==
    {Url(sc, "example.com", pa, q, f) :
        sc \in {"http", "https"},
        pa \in UNION {[1..n -> {"x", ""}] : n \in 1..MaxPathLen},
        q \in SUBSET {"utm_source", "ref", "id"},
        f \in {"", "top"}}
      \cup {Url("http", "example.com", <<>>, {}, ""), BadUrl("not a url"), BadUrl("/x//")}

NormIdle == normIn = Null /\ normOut = Null /\ normAgain = Null

\* One call of normalizeUrl on a URL of the model
NormalizeCall ==
    /\ normIn = Null
    /\ \E u \in NormUrlInputs :
         /\ normIn' = u
         /\ normOut' = normalizeUrl(u)
    /\ UNCHANGED normAgain
    /\ UNCHANGED nonNormVars

\* A second call, on what the first returned
NormalizeAgain ==
    /\ normOut # Null
    /\ normAgain = Null
    /\ normAgain' = normalizeUrl(normOut)
    /\ UNCHANGED <<normIn, normOut>>
    /\ UNCHANGED nonNormVars

NormNext == NormalizeCall \/ NormalizeAgain

-----------------------------------------------------------------------------
(* getWorkflowUpdatesDigest: src/src/api.ts 1060-1104, 1361-1604 *)

\* Times are counted in hours. A timestamp is Num(t), or Null when absent.
hoursPerDay == 24

\* An entry of timeline.executions (WorkflowExecution)
Execution(ca, sa) == [completed_at |-> ca, started_at |-> sa]

\* A WorkflowTimelineResponse; executions is Null when the field is missing
Timeline(ex) == [type |-> "timeline", executions |-> ex]

\* exec.completed_at || exec.started_at
execTimeOf(exec) ==
    IF exec.completed_at # Null THEN exec.completed_at ELSE exec.started_at

\* lines 1412-1419
recentExecutionsOf(timeline, since) ==
    IF timeline.executions = Null THEN <<>>
    ELSE SelectSeq(timeline.executions.items,
                   LAMBDA e : execTimeOf(e) # Null /\ execTimeOf(e).value > since)

\* lines 1421-1424: the value of
\* diff.diffs && diff.diffs.length > 0 && diff.diffs.some(d => d.has_changes),
\* which is diff.diffs itself when that is missing and a boolean otherwise
hasChangesOf(diff) ==
    IF diff.diffs = Null THEN Null
    ELSE Bool(/\ Len(diff.diffs.items) > 0
              /\ \E i \in 1..Len(diff.diffs.items) : diff.diffs.items[i].has_changes)

\* lines 1425-1429
TriggeredMutantNotBefore(workflow, since) ==
    /\ workflow.status = "completed"
    /\ workflow.last_execution_at # Null
    /\ workflow.last_execution_at.value >= since

triggeredConditionOf(workflow, since) ==
    /\ workflow.status = "completed"
    /\ workflow.last_execution_at # Null
    /\ workflow.last_execution_at.value > since

\* The number of entries of changes whose change_type is t
CountType(changes, t) == Len(SelectSeq(changes, LAMBDA c : c = t))

\* lines 1088-1096: the parts of the summary, in the order they are pushed
SummaryParts(changes) ==
    LET added == CountType(changes, "added")
        removed == CountType(changes, "removed")
        increase == CountType(changes, "increase")
        decrease == CountType(changes, "decrease")
        modified == CountType(changes, "status_change") + CountType(changes, "text_change")
    IN  (IF added > 0 THEN <<<<"+", added, "added">>>> ELSE <<>>)
        \o (IF removed > 0 THEN <<<<"-", removed, "removed">>>> ELSE <<>>)
        \o (IF increase > 0 THEN <<<<"up", increase, "increased">>>> ELSE <<>>)
        \o (IF decrease > 0 THEN <<<<"down", decrease, "decreased">>>> ELSE <<>>)
        \o (IF modified > 0 THEN <<<<"~", modified, "modified">>>> ELSE <<>>)

\* A change summary: a fixed text, the text the backend gave, or the joined parts
Text(t) == [kind |-> "text", text |-> t]
BackendSummary(t) == [kind |-> "backend", text |-> t]
JoinedParts(ps) == [kind |-> "parts", parts |-> ps]

\* lines 1067-1104
generateChangeSummary(diff) ==
    IF /\ diff.stats # Null
       /\ diff.total_executions > 0
       /\ diff.stats.change_rate.type = "number"
       /\ diff.stats.change_rate.value = 0
    THEN Text("No changes detected")
    ELSE IF diff.diffs = Null \/ Len(diff.diffs.items) = 0 THEN Text("No changes")
    ELSE LET latestDiff == diff.diffs.items[1]
         IN  IF \/ ~latestDiff.has_changes
                \/ latestDiff.changes = Null
                \/ Len(latestDiff.changes.items) = 0
             THEN Text("No changes detected")
             ELSE LET parts == SummaryParts(latestDiff.changes.items)
                  IN  IF latestDiff.summary # "" /\ Len(parts) = 0
                      THEN BackendSummary(latestDiff.summary)
                      ELSE IF Len(parts) > 0 THEN JoinedParts(parts)
                      ELSE Text("No changes")

\* A net_new_urls entry of an old execution: a bare string
LegacyUrl(u) == [legacy |-> u]

\* lines 1463-1473: string -> { url: string }
ToUrlObj(item) ==
    IF "legacy" \in DOMAIN item THEN UrlObj(item.legacy, "") ELSE item

\* lines 1456-1474
newUrlsOf(diff) ==
    LET latestState == latestStateOf(diff)
    IN  IF latestState = Null THEN Null
        ELSE IF latestState.net_new_urls = Null THEN Null
        ELSE Array([i \in 1..Len(latestState.net_new_urls.items) |->
                       ToUrlObj(latestState.net_new_urls.items[i])])

\* What makes the body of the try block throw once both responses are in: a
\* response whose JSON body is null (lines 1413 and 1422)
ProcessingError(timeline, diff) ==
    IF timeline = Null THEN "TypeError: reading 'executions' of null"
    ELSE IF diff = Null THEN "TypeError: reading 'diffs' of null"
    ELSE ""

\* lines 1411-1496: the digest of a workflow whose processing succeeds
BuildDigest(workflow, timeline, diff, since, verbose) ==
    LET recentExecutions == recentExecutionsOf(timeline, since)
        hasChanges == hasChangesOf(diff)
        triggeredCondition == triggeredConditionOf(workflow, since)
        newUrls == newUrlsOf(diff)
        signalResult == computeSignalScore([diff |-> diff, workflow |-> workflow,
                                            newUrls |-> newUrls,
                                            triggeredCondition |-> triggeredCondition])
    IN  [workflow_id |-> workflow.id,
         workflow_name |-> workflow.name,
         status |-> workflow.status,
         has_changes |-> hasChanges,
         triggered_condition |-> triggeredCondition,
         executions_since |-> Len(recentExecutions),
         last_execution_at |-> workflow.last_execution_at,
         change_summary |-> IF Truthy(hasChanges) THEN generateChangeSummary(diff)
                            ELSE Text("No changes detected"),
         change_rate |-> IF diff.stats = Null THEN Null ELSE diff.stats.change_rate,
         new_urls |-> newUrls,
         signal_score |-> Num(signalResult.score),
         signal_level |-> signalResult.level,
         signal_reasoning |-> signalResult.reasoning,
         recent_diffs |-> IF verbose /\ diff.diffs # Null
                          THEN Array(Take(diff.diffs.items, 3)) ELSE Null,
         recent_executions |-> IF verbose THEN Array(Take(recentExecutions, 3)) ELSE Null,
         latest_state |-> IF verbose THEN latestStateOf(diff) ELSE Null,
         error |-> Null]

\* lines 1497-1510: the digest the catch block builds; the fields it does not
\* set are absent
CatchMutantNoError(workflow, message) ==
    [workflow_id |-> workflow.id,
     workflow_name |-> workflow.name,
     status |-> workflow.status,
     has_changes |-> Bool(FALSE),
     triggered_condition |-> FALSE,
     executions_since |-> 0,
     change_summary |-> Text("Error fetching updates")]

ErrorDigest(workflow, message) ==
    [workflow_id |-> workflow.id,
     workflow_name |-> workflow.name,
     status |-> workflow.status,
     error |-> Text(message),
     has_changes |-> Bool(FALSE),
     triggered_condition |-> FALSE,
     executions_since |-> 0,
     change_summary |-> Text("Error fetching updates")]

\* lines 1518-1519: a.signal_score ?? 50
sortScoreOf(d) ==
    IF Field(d, "signal_score") = Null THEN 50 ELSE d.signal_score.value

\* line 1522: a.executions_since || 0
sortExecutionsOf(d) ==
    IF "executions_since" \in DOMAIN d THEN d.executions_since ELSE 0

\* lines 1516-1523: the comparator puts a strictly before b
DigestBefore(a, b) ==
    IF sortScoreOf(a) # sortScoreOf(b) THEN sortScoreOf(a) > sortScoreOf(b)
    ELSE sortExecutionsOf(a) > sortExecutionsOf(b)

\* Array.prototype.sort, which is stable: an insertion sort
RECURSIVE InsertDigest(_, _)
InsertDigest(x, sorted) ==
    IF sorted = <<>> THEN <<x>>
    ELSE IF DigestBefore(x, Head(sorted)) THEN <<x>> \o sorted
    ELSE <<Head(sorted)>> \o InsertDigest(x, Tail(sorted))

RECURSIVE SortDigests(_)
SortDigests(seq) ==
    IF seq = <<>> THEN <<>>
    ELSE InsertDigest(seq[Len(seq)], SortDigests(SubSeq(seq, 1, Len(seq) - 1)))

\* formatTimeAgo (lines 1749-1761), with the clock and the date in hours
formatTimeAgo(date, now) ==
    LET diffHours == now - date
    IN  IF diffHours * 60 < 60 THEN <<diffHours * 60, "minutes ago">>
        ELSE IF diffHours < hoursPerDay THEN <<diffHours, "hours ago">>
        ELSE <<diffHours \div hoursPerDay, "days ago">>

\* The digests of a signal level, in the order of the list
OfLevel(ds, level) ==
    SelectSeq(ds, LAMBDA d : "signal_level" \in DOMAIN d /\ d.signal_level = level)

\* The workflow names of a list of digests
NamesOf(ds) == [i \in 1..Len(ds) |-> ds[i].workflow_name]

\* The number of new URLs of a digest: w.new_urls?.length || 0
newUrlsCountOf(d) == newUrlCountOf(Field(d, "new_urls"))

\* The new URLs a detailed section shows for a digest: new_urls.slice(0, 3)
ShownUrls(d) ==
    IF newUrlsCountOf(d) > 0 THEN Take(d.new_urls.items, 3) ELSE <<>>

\* text.split("/").pop(): what a text holds after its last "/", the whole
\* text when it has none
AfterLastSlash(text) ==
    LET slashes == {i \in 1..Len(text) : SubSeq(text, i, i) = "/"}
    IN  IF slashes = {} THEN text
        ELSE SubSeq(text, (CHOOSE i \in slashes : \A k \in slashes : k <= i) + 1,
                    Len(text))

\* u.url.split("/").pop(), as the text before "?", the names of the query
\* parameters and the fragment of what the URL string holds after its last
\* "/". In a string that parses, that "/" is the last one of the fragment when
\* the fragment has one, else the one before the last segment of the path,
\* else the second of "://", which the host follows
LastSegmentOf(url) ==
    IF ~url.ok THEN [text |-> AfterLastSlash(url.raw), query |-> {}, hash |-> ""]
    ELSE IF AfterLastSlash(url.hash) # url.hash
    THEN [text |-> AfterLastSlash(url.hash), query |-> {}, hash |-> ""]
    ELSE IF url.path = <<>>
    THEN [text |-> url.host, query |-> url.query, hash |-> url.hash]
    ELSE [text |-> url.path[Len(url.path)], query |-> url.query, hash |-> url.hash]

\* lines 1651-1668: the lines of one digest of the urgent section. The stop
\* condition line is pushed when triggered is true, the signal line when there
\* is a reasoning; a link is [title or "Link"](url), and the URL objects of the
\* model carry no title
UrgentLines(d) ==
    [name |-> d.workflow_name,
     triggered |-> d.triggered_condition,
     change_summary |-> d.change_summary,
     signal_reasoning |-> Field(d, "signal_reasoning"),
     links |-> [i \in 1..Len(ShownUrls(d)) |->
                  [title |-> "Link", url |-> ShownUrls(d)[i].url]]]

\* lines 1675-1695: the lines of one digest of the notable section. A finding
\* is the title of a URL object or else the last segment of its URL; more is 0
\* when "(+N more)" is not written; the churn line is pushed when change_rate
\* is not undefined: churn is Null when there is no such line, and else the
\* value the line prints, a number or JsonNull ("Churn: null%")
NotableLines(d) ==
    [name |-> d.workflow_name,
     change_summary |-> d.change_summary,
     findings |-> [i \in 1..Len(ShownUrls(d)) |-> LastSegmentOf(ShownUrls(d)[i].url)],
     more |-> Max(0, newUrlsCountOf(d) - 3),
     signal_reasoning |-> Field(d, "signal_reasoning"),
     churn |-> Field(d, "change_rate")]

\* lines 1724-1736: one correlation of the correlation section
ShownCorrelation(c) ==
    [domain |-> IF c.value.ok THEN c.value.host ELSE c.value.raw,
     monitors |-> Len(c.workflows),
     names |-> [i \in 1..Len(c.workflows) |-> c.workflows[i].workflow_name],
     page |-> c.value]

\* line 1621: the zero-changes case
AllQuietMutantChangesOnly(workflowsWithChanges, triggeredWorkflows) ==
    workflowsWithChanges = 0

IsAllQuiet(workflowsWithChanges, triggeredWorkflows) ==
    workflowsWithChanges = 0 /\ Len(triggeredWorkflows) = 0

\* lines 1610-1744: the sections of the briefing, in the order they are pushed;
\* more is 0 when the "more" line is not pushed. clock is what new Date() gives
\* while the briefing is written (lines 1617 and 1750)
generateBriefingMarkdown(ds, triggeredWorkflows, workflowsWithChanges, clock, correlations) ==
    IF IsAllQuiet(workflowsWithChanges, triggeredWorkflows)
    THEN <<[section |-> "all_quiet",
            monitors |-> Len(ds),
            times |-> [i \in 1..Min(5, Len(ds)) |->
                         <<ds[i].workflow_name,
                           IF Field(ds[i], "last_execution_at") # Null
                           THEN formatTimeAgo(ds[i].last_execution_at.value, clock)
                           ELSE <<0, "Never">> >>],
            more |-> Max(0, Len(ds) - 5)]>>
    ELSE LET urgent == OfLevel(ds, "urgent")
             notable == OfLevel(ds, "notable")
             routine == OfLevel(ds, "routine")
             noise == OfLevel(ds, "noise")
         IN  (IF Len(urgent) > 0
              THEN <<[section |-> "urgent", count |-> Len(urgent),
                      items |-> [i \in 1..Len(urgent) |-> UrgentLines(urgent[i])]]>>
              ELSE <<>>)
             \o (IF Len(notable) > 0
                 THEN <<[section |-> "notable", count |-> Len(notable),
                         items |-> [i \in 1..Len(notable) |-> NotableLines(notable[i])]]>>
                 ELSE <<>>)
             \o (IF Len(routine) > 0
                 THEN <<[section |-> "routine", count |-> Len(routine),
                         names |-> NamesOf(routine)]>>
                 ELSE <<>>)
             \o (IF Len(noise) > 0
                 THEN <<[section |-> "noise", count |-> Len(noise),
                         names |-> NamesOf(noise)]>>
                 ELSE <<>>)
             \o (IF Len(correlations) > 0
                 THEN <<[section |-> "correlations", count |-> Len(correlations),
                         shown |-> [i \in 1..Min(5, Len(correlations)) |->
                                      ShownCorrelation(correlations[i])],
                         more |-> Max(0, Len(correlations) - 5)]>>
                 ELSE <<>>)

\* lines 1586-1595: a digest of the compact format
CompactWorkflow(w) ==
    [workflow_id |-> w.workflow_id,
     workflow_name |-> w.workflow_name,
     status |-> w.status,
     has_changes |-> w.has_changes,
     triggered_condition |-> w.triggered_condition,
     change_summary |-> w.change_summary,
     new_urls_count |-> newUrlsCountOf(w)]

RECURSIVE SumExecutions(_)
SumExecutions(ds) ==
    IF ds = <<>> THEN 0 ELSE sortExecutionsOf(Head(ds)) + SumExecutions(Tail(ds))

\* lines 1541-1553: the sentences of the summary, in order
SummaryMutantNoExecutions(triggered, withChanges, total, totalExecutions) ==
    LET sentences ==
          (IF triggered > 0 THEN <<<<"triggered", triggered>>>> ELSE <<>>)
          \o (IF withChanges > 0 THEN <<<<"have new changes", withChanges, total>>>> ELSE <<>>)
    IN  IF sentences = <<>> THEN <<<<"All quiet", total>>>> ELSE sentences

SummaryOf(triggered, withChanges, total, totalExecutions) ==
    LET sentences ==
          (IF triggered > 0 THEN <<<<"triggered", triggered>>>> ELSE <<>>)
          \o (IF withChanges > 0 THEN <<<<"have new changes", withChanges, total>>>> ELSE <<>>)
          \o (IF totalExecutions > 0 THEN <<<<"total executions", totalExecutions>>>> ELSE <<>>)
    IN  IF sentences = <<>> THEN <<<<"All quiet", total>>>> ELSE sentences

\* lines 1372-1377
sinceOf(params, now) ==
    IF params.since = Null THEN now - hoursPerDay ELSE params.since.value

defaultMaxWorkflows == 20
hardMaxWorkflows == 50

maxWorkflowsOf(params) ==
    Min(IF params.max_workflows = Null THEN defaultMaxWorkflows
        ELSE params.max_workflows.value, hardMaxWorkflows)

IncludeMutantDefaultAll(params) ==
    IF params.include_inactive = Null THEN TRUE ELSE params.include_inactive.value

includeInactiveOf(params) ==
    IF params.include_inactive = Null THEN FALSE ELSE params.include_inactive.value

verboseOf(params) == IF params.verbose = Null THEN FALSE ELSE params.verbose.value

FormatMutantDefaultBriefing(params) ==
    IF params.format = Null THEN "briefing" ELSE params.format.value

formatOf(params) == IF params.format = Null THEN "json" ELSE params.format.value

\* listWorkflows (lines 715-730): a parameter enters the query string only when
\* it is truthy
listWorkflowsQuery(limit, status) ==
    [limit |-> IF limit # 0 THEN Num(limit) ELSE Null,
     status |-> IF status # "" THEN status ELSE ""]

\* line 1385: !workflows.workflows || workflows.workflows.length === 0, on the
\* workflows field of the body
EmptyListingMutantNullOnly(listed) == listed = Null

IsEmptyListing(listed) == listed = Null \/ Len(listed.items) = 0

\* lines 1386-1395
NoWorkflowsResponse(since) ==
    [summary |-> <<<<"No workflows found.">>>>,
     since |-> since,
     total_workflows |-> 0,
     workflows_with_changes |-> 0,
     triggered_workflows |-> 0,
     total_executions_since |-> 0,
     workflows |-> <<>>]

\* line 1516: the order of the digests of the response
OrderedDigests(resolved) == SortDigests(resolved)

\* lines 1514-1603: the response built from the digests Promise.all resolved to.
\* now is the clock read at line 1373, which the default of since comes from;
\* clock is the clock read again while the briefing is written
BuildResponse(resolved, params, now, clock) ==
    LET since == sinceOf(params, now)
        format == formatOf(params)
        sortedDigests == OrderedDigests(resolved)
        found == findCorrelations(sortedDigests)
        workflowsWithChanges == Len(SelectSeq(sortedDigests, LAMBDA w : Truthy(w.has_changes)))
        triggeredWorkflowsList == SelectSeq(sortedDigests, LAMBDA w : w.triggered_condition)
        totalExecutions == SumExecutions(sortedDigests)
        baseResponse ==
            [summary |-> SummaryOf(Len(triggeredWorkflowsList), workflowsWithChanges,
                                   Len(sortedDigests), totalExecutions),
             since |-> since,
             total_workflows |-> Len(sortedDigests),
             workflows_with_changes |-> workflowsWithChanges,
             triggered_workflows |-> Len(triggeredWorkflowsList),
             total_executions_since |-> totalExecutions,
             workflows |-> sortedDigests,
             correlations |-> IF Len(found.correlations) > 0
                              THEN Array(found.correlations) ELSE Null,
             correlation_metadata |-> found.metadata]
    IN  IF format \in {"briefing", "briefing_llm"}
        THEN baseResponse @@
             [formatted_output |->
                 generateBriefingMarkdown(sortedDigests, triggeredWorkflowsList,
                                          workflowsWithChanges, clock, found.correlations)]
        ELSE IF format = "compact"
        THEN [baseResponse EXCEPT
                 !.workflows = [i \in 1..Len(sortedDigests) |->
                                  CompactWorkflow(sortedDigests[i])]] @@
             [formatted_output |-> <<"Compact", workflowsWithChanges, Len(sortedDigests)>>]
        ELSE baseResponse

\* The whole body of the map callback (lines 1401-1510): the try block, and the
\* catch block for whatever it throws. An outcome of a fetch is Thrown(m) or
\* Returned(body)
Thrown(m) == [kind |-> "throw", message |-> m]
Returned(b) == [kind |-> "ok", body |-> b]
Pending == [kind |-> "pending"]

ProcessWorkflow(workflow, timelineOut, diffOut, since, verbose) ==
    IF timelineOut.kind = "throw" THEN ErrorDigest(workflow, timelineOut.message)
    ELSE IF diffOut.kind = "throw" THEN ErrorDigest(workflow, diffOut.message)
    ELSE IF ProcessingError(timelineOut.body, diffOut.body) # ""
    THEN ErrorDigest(workflow, ProcessingError(timelineOut.body, diffOut.body))
    ELSE BuildDigest(workflow, timelineOut.body, diffOut.body, since, verbose)

\* ---- the inputs and the remote's answers the model draws from ----

\* The largest number of workflows the remote lists
MaxListed == 2

NowInputs == {48}

\* The hours that pass between the clock read at line 1373 and the one read
\* while the response is built
ClockDrifts == {0, 2}

ClocksAfter(now) == {now + h : h \in ClockDrifts}

DigestParams(si, ii, mw, ve, fo) ==
    [since |-> si, include_inactive |-> ii, max_workflows |-> mw, verbose |-> ve,
     format |-> fo]

DigestParamInputs ==
    {DigestParams(Null, Null, Null, Null, Null),
     DigestParams(Null, Null, Num(0), Null, Str("compact")),
     DigestParams(Null, Bool(FALSE), Num(1), Null, Str("briefing")),
     DigestParams(Num(40), Bool(TRUE), Null, Null, Str("briefing_llm")),
     DigestParams(Null, Bool(TRUE), Num(60), Bool(TRUE), Str("json")),
     DigestParams(Num(45), Bool(TRUE), Num(1), Null, Null)}

\* The workflows of the account: status, priority, last_execution_at
WorkflowProfiles ==
    {<<"active", "", Num(30)>>, <<"active", "low", Null>>, <<"completed", "high", Num(45)>>}

\* A completed workflow that carries no last_execution_at
CompletedNeverRun == Workflow(1, "completed", "", Null)

\* A WorkflowListResponse; workflows is Null when the field is missing
WorkflowList(ws) == [type |-> "list", workflows |-> ws]

\* Listings of a remote that takes no account of the query: a completed
\* workflow whatever the status asked for, two workflows whatever the limit
UnfilteredListings ==
    {<<CompletedNeverRun>>,
     <<Workflow(1, "completed", "high", Num(45))>>,
     <<Workflow(1, "active", "", Num(30)), Workflow(2, "completed", "high", Num(45))>>}

\* The answers of GET /workflows to a query, which the code takes as they come
\* (lines 1380-1400): the request fails, the JSON body is null, the body has no
\* workflows, it lists workflows that match the status asked for, no more than
\* the limit asked for, or it is one of the listings that ignore the query
ListingOutcomes(query) ==
    LET listed == {pr \in WorkflowProfiles : query.status = "" \/ pr[1] = query.status}
        lengths == {n \in 1..MaxListed : query.limit = Null \/ n <= query.limit.value}
    IN  {Thrown("list request failed"), Returned(Null),
         Returned(WorkflowList(Null)), Returned(WorkflowList(Array(<<>>)))}
          \cup {Returned(WorkflowList(Array([i \in 1..Len(f) |->
                                               Workflow(i, f[i][1], f[i][2], f[i][3])]))) :
                  f \in UNION {[1..n -> listed] : n \in lengths}}
          \cup {Returned(WorkflowList(Array(l))) : l \in UnfilteredListings}

TimelineOutcomes ==
    {Thrown("timeline request failed"),
     Returned(Null),
     Returned(Timeline(Null)),
     Returned(Timeline(Array(<<Execution(Num(45), Num(44)), Execution(Null, Num(30)),
                               Execution(Num(10), Num(9))>>)))}

pageX == Url("https", "example.com", <<"x">>, {"utm_source"}, "")
pageXAgain == Url("http", "example.com", <<"x", "">>, {}, "")
pageY == Url("https", "example.com", <<"y">>, {}, "")

DiffOutcomes ==
    {Thrown("diff request failed"),
     Returned(Null),
     Returned(Diff(0, Null, Null, Null)),
     Returned(Diff(3, [change_rate |-> Num(10)],
                   Array(<<ExecDiff(TRUE, Array(<<"added", "added", "text_change">>), "")>>),
                   [state |-> LatestState(Array(<<UrlObj(pageX, "news_editorial"),
                                                  LegacyUrl(pageY)>>),
                                          Num(1), Null)])),
     Returned(Diff(2, [change_rate |-> Num(60)],
                   Array(<<ExecDiff(FALSE, Null, ""),
                           ExecDiff(TRUE, Array(<<"other">>), "page rewritten")>>),
                   Null)),
     Returned(Diff(1, [change_rate |-> JsonNull],
                   Array(<<ExecDiff(TRUE, Array(<<"other">>), "page rewritten")>>),
                   [state |-> LatestState(Array(<<UrlObj(pageXAgain, "")>>), Null,
                                          Array(<<"price">>))]))}

\* ---- the call ----

\* lines 1399-1400: Promise.all keeps the value a callback returns at the
\* position of its workflow in the listing, whenever the callback returns
StoreMutantCompletionOrder(all, i, d) ==
    LET free == {k \in 1..Len(all) : all[k] = Null}
        slot == CHOOSE k \in free : \A m \in free : k <= m
    IN  [all EXCEPT ![slot] = d]

StoreDigest(all, i, d) == [all EXCEPT ![i] = d]

DigestInit ==
    /\ dgParams \in DigestParamInputs
    /\ dgNow \in NowInputs
    /\ dgPc = "start"
    /\ listQuery = Null
    /\ workflows = Null
    /\ branch = <<>>
    /\ workflowDigests = <<>>
    /\ requests = {}
    /\ response = Null

\* The calls that ask for a briefing
DigestInitBriefing ==
    /\ DigestInit
    /\ formatOf(dgParams) \in {"briefing", "briefing_llm"}

DigestIdle ==
    /\ dgParams = Null
    /\ dgNow = 0
    /\ dgPc = "idle"
    /\ listQuery = Null
    /\ workflows = Null
    /\ branch = <<>>
    /\ workflowDigests = <<>>
    /\ requests = {}
    /\ response = Null

\* lines 1372-1383: the parameters are defaulted and the listing is requested
RequestListing ==
    /\ dgPc = "start"
    /\ listQuery' = listWorkflowsQuery(maxWorkflowsOf(dgParams),
                                       IF includeInactiveOf(dgParams) THEN "" ELSE "active")
    /\ dgPc' = "listing"
    /\ UNCHANGED <<dgParams, dgNow, workflows, branch, workflowDigests, requests, response>>
    /\ UNCHANGED nonDigestVars

\* lines 1380-1403: the listing settles. A failure rejects the call, and so
\* does a null body, whose workflows the test of line 1385 cannot read; no
\* workflows gives the fixed response; otherwise every workflow's callback runs
\* up to its first await, the timeline request. The variable workflows holds
\* the workflows field of the body
ListingSettles ==
    /\ dgPc = "listing"
    /\ \E out \in ListingOutcomes(listQuery) :
         IF out.kind = "throw"
         THEN /\ dgPc' = "thrown"
              /\ UNCHANGED <<workflows, branch, workflowDigests, requests, response>>
         ELSE IF out.body = Null
         THEN /\ dgPc' = "thrown"
              /\ UNCHANGED <<workflows, branch, workflowDigests, requests, response>>
         ELSE IF IsEmptyListing(out.body.workflows)
         THEN /\ dgPc' = "returned"
              /\ workflows' = out.body.workflows
              /\ response' = NoWorkflowsResponse(sinceOf(dgParams, dgNow))
              /\ UNCHANGED <<branch, workflowDigests, requests>>
         ELSE /\ dgPc' = "fanout"
              /\ workflows' = out.body.workflows
              /\ branch' = [i \in 1..Len(out.body.workflows.items) |->
                              [pc |-> "timeline", timeline |-> Pending, diff |-> Pending]]
              /\ workflowDigests' = [i \in 1..Len(out.body.workflows.items) |-> Null]
              /\ requests' = {<<"timeline", out.body.workflows.items[i].id>> :
                                i \in 1..Len(out.body.workflows.items)}
              /\ UNCHANGED response
    /\ UNCHANGED <<dgParams, dgNow, listQuery>>
    /\ UNCHANGED nonDigestVars

\* lines 1403-1409: the timeline request of workflow i settles. A failure goes
\* to the catch block; otherwise the diff request is issued
TimelineSettles(i) ==
    /\ dgPc = "fanout"
    /\ branch[i].pc = "timeline"
    /\ \E out \in TimelineOutcomes :
         IF out.kind = "throw"
         THEN /\ branch' = [branch EXCEPT ![i] = [@ EXCEPT !.pc = "done", !.timeline = out]]
              /\ workflowDigests' =
                   StoreDigest(workflowDigests, i,
                               ProcessWorkflow(workflows.items[i], out, Pending,
                                               sinceOf(dgParams, dgNow), verboseOf(dgParams)))
              /\ UNCHANGED requests
         ELSE /\ branch' = [branch EXCEPT ![i] = [@ EXCEPT !.pc = "diff", !.timeline = out]]
              /\ requests' = requests \cup
                   {<<"diff", workflows.items[i].id, sinceOf(dgParams, dgNow),
                      IF verboseOf(dgParams) THEN 10 ELSE 3>>}
              /\ UNCHANGED workflowDigests
    /\ UNCHANGED <<dgParams, dgNow, dgPc, listQuery, workflows, response>>
    /\ UNCHANGED nonDigestVars

\* lines 1406-1510: the diff request of workflow i settles and the callback runs
\* to its return
DiffSettles(i) ==
    /\ dgPc = "fanout"
    /\ branch[i].pc = "diff"
    /\ \E out \in DiffOutcomes :
         /\ branch' = [branch EXCEPT ![i] = [@ EXCEPT !.pc = "done", !.diff = out]]
         /\ workflowDigests' =
              StoreDigest(workflowDigests, i,
                          ProcessWorkflow(workflows.items[i], branch[i].timeline, out,
                                          sinceOf(dgParams, dgNow), verboseOf(dgParams)))
    /\ UNCHANGED <<dgParams, dgNow, dgPc, listQuery, workflows, requests, response>>
    /\ UNCHANGED nonDigestVars

\* lines 1512-1603: Promise.all resolves once every callback has returned.
\* The sort of line 1516 sorts the array of the digests in place, and the
\* briefing reads the clock again
Respond ==
    /\ dgPc = "fanout"
    /\ \A i \in 1..Len(branch) : branch[i].pc = "done"
    /\ workflowDigests' = OrderedDigests(workflowDigests)
    /\ \E clock \in ClocksAfter(dgNow) :
         response' = BuildResponse(workflowDigests, dgParams, dgNow, clock)
    /\ dgPc' = "returned"
    /\ UNCHANGED <<dgParams, dgNow, listQuery, workflows, branch, requests>>
    /\ UNCHANGED nonDigestVars

DigestNext ==
    \/ RequestListing
    \/ ListingSettles
    \/ \E i \in 1..Len(branch) : TimelineSettles(i)
    \/ \E i \in 1..Len(branch) : DiffSettles(i)
    \/ Respond

\* ---- the briefing of a call that listed many workflows ----

\* The largest number of digests of a briefing, and the number of pages a
\* changed workflow of such a call found
MaxBriefDigests == 6
MaxBriefPages == 6

BriefParams == DigestParams(Null, Null, Null, Null, Str("briefing"))

\* What the callback of the workflow at position i can have resolved to: a
\* quiet workflow, a quiet low-priority one that never ran, a completed one
\* without changes, one that found pages, and one whose timeline request failed
BriefDigestsAt(i, now) ==
    LET since == sinceOf(BriefParams, now)
        quiet == Returned(Diff(0, Null, Null, Null))
        found == Returned(Diff(1, [change_rate |-> Num(10)],
                               Array(<<ExecDiff(TRUE, Array(<<"added">>), "")>>),
                               [state |-> LatestState(
                                   Array([k \in 1..MaxBriefPages |-> UrlObj(OwnPage(k), "")]),
                                   Null, Null)]))
        answered == Returned(Timeline(Null))
    IN  {ProcessWorkflow(Workflow(i, "active", "", Num(30)), answered, quiet, since, FALSE),
         ProcessWorkflow(Workflow(i, "active", "low", Null), answered, quiet, since, FALSE),
         ProcessWorkflow(Workflow(i, "completed", "high", Num(45)), answered, quiet,
                         since, FALSE),
         ProcessWorkflow(Workflow(i, "active", "", Num(30)), answered, found, since, FALSE),
         ProcessWorkflow(Workflow(i, "active", "", Num(30)),
                         Thrown("timeline request failed"), Pending, since, FALSE)}

BriefIdle == briefIn = Array(<<>>) /\ briefOut = Null

\* Promise.all collects the digests of the listed workflows
BriefAddDigest ==
    /\ briefOut = Null
    /\ Len(briefIn.items) < MaxBriefDigests
    /\ \E now \in NowInputs :
         \E d \in BriefDigestsAt(Len(briefIn.items) + 1, now) :
            briefIn' = Array(Append(briefIn.items, d))
    /\ UNCHANGED briefOut
    /\ UNCHANGED nonBriefVars

\* lines 1512-1582: the response with its briefing is built from them; the
\* sort of line 1516 sorts the array of the digests in place
BriefCall ==
    /\ briefOut = Null
    /\ Len(briefIn.items) >= 1
    /\ briefIn' = Array(OrderedDigests(briefIn.items))
    /\ \E now \in NowInputs :
         \E clock \in ClocksAfter(now) :
            briefOut' = BuildResponse(briefIn.items, BriefParams, now, clock)
    /\ UNCHANGED nonBriefVars

BriefNext == BriefAddDigest \/ BriefCall

-----------------------------------------------------------------------------
(* Specifications: one per operation, the other operations idle *)

\* The state when searchWithPolling is called
InitPoll == PollInit /\ ScoreIdle /\ CorrIdle /\ NormIdle /\ DigestIdle /\ BriefIdle

SpecPoll == InitPoll /\ [][PollNext]_vars

\* A call all of whose fetches are answered: the event loop runs the
\* continuation of every timer and of every fetch that settles
InitPollFair == PollInitBounded /\ ScoreIdle /\ CorrIdle /\ NormIdle /\ DigestIdle /\ BriefIdle

SpecPollFair ==
    InitPollFair /\ [][PollNextAnswered]_vars /\ WF_vars(PollNextAnswered)

\* A call followed through the rounds in which the interval reaches its cap
InitBackoff == PollInitBackoff /\ ScoreIdle /\ CorrIdle /\ NormIdle /\ DigestIdle /\ BriefIdle

SpecBackoff == InitBackoff /\ [][BackoffNext]_vars

\* The state when computeSignalScore is called
InitScore == PollIdle /\ ScoreIdle /\ CorrIdle /\ NormIdle /\ DigestIdle /\ BriefIdle

SpecScore == InitScore /\ [][ScoreCall]_vars

\* The state when findCorrelations is called
InitCorr == PollIdle /\ ScoreIdle /\ CorrIdle /\ NormIdle /\ DigestIdle /\ BriefIdle

SpecCorr == InitCorr /\ [][CorrNext]_vars

\* The state when findCorrelations is called on a long list
InitCorrCap == PollIdle /\ ScoreIdle /\ CorrIdle /\ NormIdle /\ DigestIdle /\ BriefIdle

SpecCorrCap == InitCorrCap /\ [][CorrCapNext]_vars

\* The state when normalizeUrl is called
InitNorm == PollIdle /\ ScoreIdle /\ CorrIdle /\ NormIdle /\ DigestIdle /\ BriefIdle

SpecNorm == InitNorm /\ [][NormNext]_vars

\* The state when getWorkflowUpdatesDigest is called
InitDigest == PollIdle /\ ScoreIdle /\ CorrIdle /\ NormIdle /\ DigestInit /\ BriefIdle

SpecDigest == InitDigest /\ [][DigestNext]_vars

\* The state when getWorkflowUpdatesDigest is called for a briefing; the
\* callbacks of the listed workflows then run in every order
InitFanout == PollIdle /\ ScoreIdle /\ CorrIdle /\ NormIdle /\ DigestInitBriefing /\ BriefIdle

SpecFanout == InitFanout /\ [][DigestNext]_vars

\* The state when a briefing is asked for
InitBrief == PollIdle /\ ScoreIdle /\ CorrIdle /\ NormIdle /\ DigestIdle /\ BriefIdle

SpecBrief == InitBrief /\ [][BriefNext]_vars

-----------------------------------------------------------------------------
(* Properties of searchWithPolling *)

\* The feature predicates as the specification words them: a requested summary
\* is complete when it is a legacy string or an object whose status is
\* completed or failed; requested metadata when its status is completed or failed
StatedSummaryComplete(params, j) ==
    \/ ~params.generate_summary
    \/ j.summary.type = "string"
    \/ j.summary.type = "object" /\ j.summary.status \in {"completed", "failed"}

StatedMetadataComplete(params, j) ==
    \/ ~params.extract_metadata
    \/ j.metadata_status \in {"completed", "failed"}

\* C2: when the loop ends because the wall-clock budget has elapsed, the call
\* returns (it does not throw) a non-null snapshot: that of the most recent
\* successful fetch, or the submission response when no fetch succeeded.
C2_TimeoutReturnsLastSnapshot ==
    pollResult.why = "timeout" =>
        /\ pollPc = "returned"
        /\ pollResult.kind = "return"
        /\ pollResult.value # Null
        /\ pollResult.value = lastObserved
        /\ (lastObserved.seq = 0 => pollResult.value = initialResult)

\* C2 witness: a timeout after a successful fetch that was followed by a failed one
C2_Witness ==
    /\ pollResult.why = "timeout"
    /\ fetches >= 2
    /\ fetchOutcome = "network_error"
    /\ lastObserved.seq >= 1
    /\ lastObserved.seq < fetches

\* C3: a successful fetch whose snapshot is not failed and satisfies every
\* requested predicate ends the call at once with exactly that snapshot: no
\* further sleep and no further fetch.
C3_ReturnsFirstCompleteSnapshot ==
    (/\ fetchOutcome = "ok"
     /\ job.status # "failed"
     /\ StatedSummaryComplete(pollParams, job)
     /\ StatedMetadataComplete(pollParams, job))
    => /\ pollPc = "returned"
       /\ pollResult.kind = "return"
       /\ pollResult.value = job
       /\ Len(sleeps) = fetches

\* C4: a successful fetch whose snapshot has status failed stops the polling (no
\* further sleep or fetch) and throws an error carrying that snapshot, also when
\* the snapshot satisfies every requested predicate.
C4_FailedJobThrows ==
    (fetchOutcome = "ok" /\ job.status = "failed")
    => /\ pollPc = "thrown"
       /\ pollResult.kind = "throw"
       /\ pollResult.why = "job_failed"
       /\ pollResult.details = job
       /\ job.seq = fetches
       /\ Len(sleeps) = fetches

\* C4 witness: the thrown snapshot is failed and satisfies both requested predicates
C4_Witness ==
    /\ pollPc = "thrown"
    /\ fetchOutcome = "ok"
    /\ job.status = "failed"
    /\ pollParams.generate_summary /\ pollParams.extract_metadata
    /\ summaryDone(pollParams, job) /\ metadataDone(pollParams, job)
    /\ fetches >= 2

\* C5: a fetch that fails transiently (non-2xx response, network exception)
\* leaves the retained snapshot as it was, raises nothing and goes back to the
\* loop test; there the next round starts whenever the budget is not used up.
C5_TransientFailureKeepsPolling ==
    [][(pollPc = "fetch" /\ fetchOutcome' \in {"http_error", "network_error"})
        => /\ lastSuccessfulJob' = lastSuccessfulJob
           /\ pollResult' = NoResult
           /\ pollPc' = "test"
           /\ currentInterval' = NextInterval(currentInterval)]_vars

\* C5 witness: a transient failure after a successful fetch, polling still on
C5_Witness ==
    /\ pollPc = "sleep"
    /\ fetchOutcome = "http_error"
    /\ fetches >= 2
    /\ lastSuccessfulJob.seq = 1
    /\ elapsed < maxDuration(pollParams)

\* C12: a snapshot fetch that never receives a response is abandoned after its
\* own timeout of 30 s and counts as a transient failure: the step in which
\* such a fetch ends takes no more than 30 s, keeps the retained snapshot and
\* leads back to the loop test.
C12_UnansweredFetchAbandoned ==
    [][(pollPc = "fetch" /\ fetchOutcome' = "no_response") =>
          /\ elapsed' - elapsed <= Ticks(DEFAULT_FETCH_TIMEOUT)
          /\ lastSuccessfulJob' = lastSuccessfulJob
          /\ pollPc' = "test"]_vars

\* C13: when every fetch is answered and the job never fails and never
\* completes a requested feature, the call ends: it returns, on the timeout,
\* the last snapshot observed.
C13_PendingJobTerminates ==
    [](pollResult.why \in {"running", "timeout"})
        => <>(/\ pollPc = "returned"
              /\ pollResult.kind = "return"
              /\ pollResult.why = "timeout"
              /\ pollResult.value = lastObserved)

\* C13 witness: the call returned on the timeout the pending snapshot of its
\* latest fetch, after more than one round
C13_Witness ==
    /\ pollPc = "returned"
    /\ pollResult.why = "timeout"
    /\ fetches >= 2
    /\ pollResult.value.seq = fetches
    /\ pollResult.value.status = "pending"
    /\ ~summaryDone(pollParams, pollResult.value)

\* C14: when neither the summary nor the metadata is requested, the call
\* returns the submission response, whatever its status, without any snapshot
\* fetch and without any sleep.
C14_NoFeatureNoPolling ==
    (/\ ~pollParams.generate_summary
     /\ ~pollParams.extract_metadata
     /\ initialResult # Null)
    => /\ pollPc = "returned"
       /\ pollResult.kind = "return"
       /\ pollResult.value = initialResult
       /\ fetches = 0
       /\ sleeps = <<>>
       /\ elapsed = 0

\* C14 witness: the submission response returned without polling has status failed
C14_Witness ==
    /\ pollPc = "returned"
    /\ ~pollParams.generate_summary
    /\ ~pollParams.extract_metadata
    /\ pollResult.value = initialResult
    /\ initialResult.status = "failed"
    /\ fetches = 0

\* The budget the README documents for a caller-supplied timeout_ms (ms)
minTimeoutMs == 5000
maxTimeoutMs == 300000

\* C19: the wall-clock budget the loop tests against is 60000 ms when the
\* caller gives no timeout_ms, and otherwise lies within 5000..300000 ms.
C19_BudgetWithinDocumentedRange ==
    pollPc \in {"test", "sleep", "fetch"} =>
        IF pollParams.timeout_ms = Null
        THEN maxDuration(pollParams) = Ticks(60000)
        ELSE /\ maxDuration(pollParams) >= Ticks(minTimeoutMs)
             /\ maxDuration(pollParams) <= Ticks(maxTimeoutMs)

RECURSIVE Pow(_, _)
Pow(b, e) == IF e = 0 THEN 1 ELSE b * Pow(b, e - 1)

\* min(500 * 1.5^k, 4000) ms, in ticks
StatedInterval(k) ==
    IF Ticks(initialInterval) * Pow(3, k) >= Ticks(maxInterval) * Pow(2, k)
    THEN Ticks(maxInterval)
    ELSE (Ticks(initialInterval) * Pow(3, k)) \div Pow(2, k)

\* C22: every fetch is preceded by exactly one sleep, and the k-th sleep
\* (k = 0, 1, ...) lasts min(500 * 1.5^k, 4000) ms whether the fetches before
\* it succeeded or failed; the interval never decreases and never exceeds 4000.
C22_BackoffIntervals ==
    /\ Len(sleeps) = fetches + (IF pollPc = "fetch" THEN 1 ELSE 0)
    /\ \A k \in 1..Len(sleeps) :
          /\ sleeps[k] = StatedInterval(k - 1)
          /\ sleeps[k] <= Ticks(maxInterval)
          /\ k > 1 => sleeps[k - 1] <= sleeps[k]

\* C22 witness: the seventh sleep of a call is the first that lasts 4000 ms,
\* and it follows a round whose fetch failed
C22_Witness ==
    /\ Len(sleeps) = 7
    /\ sleeps[1] = Ticks(initialInterval)
    /\ sleeps[6] < Ticks(maxInterval)
    /\ sleeps[7] = Ticks(maxInterval)
    /\ pollPc = "fetch"
    /\ fetchOutcome = "http_error"

-----------------------------------------------------------------------------
(* Properties of computeSignalScore *)

\* C7: the score returned by computeSignalScore lies in 0..100 and the level is
\* the one the thresholds 80 / 60 / 40 assign to that score.
C7_ScoreInRangeLevelByThreshold ==
    scoreOut # Null =>
        /\ scoreOut.score \in 0..100
        /\ scoreOut.level = "urgent" <=> scoreOut.score >= 80
        /\ scoreOut.level = "notable" <=> (scoreOut.score >= 60 /\ scoreOut.score < 80)
        /\ scoreOut.level = "routine" <=> (scoreOut.score >= 40 /\ scoreOut.score < 60)
        /\ scoreOut.level = "noise" <=> scoreOut.score < 40

\* C7 witness: a call whose unclamped sum exceeds 100
C7_Witness ==
    /\ scoreOut # Null
    /\ baselineScore + SumPoints(ScoreTerms(scoreCtx)) > 100
    /\ scoreOut.score = 100
    /\ scoreOut.level = "urgent"

\* The sum the specification gives for a scoring input, before the clamp
StatedScoreSum(ctx) ==
    LET rate == IF ctx.diff.stats = Null \/ ctx.diff.stats.change_rate = Null THEN 0
                ELSE ctx.diff.stats.change_rate.value
        state == IF ctx.diff.latest = Null THEN Null ELSE ctx.diff.latest.state
        urls == IF ctx.newUrls = Null THEN <<>> ELSE ctx.newUrls.items
    IN  50
        + (IF ctx.workflow.priority = "high" THEN 25
           ELSE IF ctx.workflow.priority = "low" THEN 0 - 15 ELSE 0)
        + (IF ctx.triggeredCondition THEN 30 ELSE 0)
        + (IF \E i \in 1..Len(urls) :
                 urls[i].document_type \in {"legal_regulatory", "academic_research",
                                            "news_editorial", "government"}
           THEN 20 ELSE 0)
        + (IF rate > 50 THEN 0 - 15 ELSE IF rate > 0 /\ rate <= 20 THEN 5 ELSE 0)
        + (IF state # Null /\ state.new_domains_count # Null
                /\ state.new_domains_count.value > 0 THEN 10 ELSE 0)
        + (IF state # Null /\ state.extraction_changes # Null
                /\ Len(state.extraction_changes.items) > 0 THEN 15 ELSE 0)
        + (IF Len(urls) >= 5 THEN 10 ELSE IF Len(urls) >= 1 THEN 5 ELSE 0)

\* The scenario of the specification: priority high, a triggered stop condition,
\* 6 new URLs of type news_editorial, and no other evidence
StatedScenario(ctx) ==
    /\ ctx.workflow.priority = "high"
    /\ ctx.triggeredCondition
    /\ ctx.newUrls # Null
    /\ Len(ctx.newUrls.items) = 6
    /\ \A i \in 1..6 : ctx.newUrls.items[i].document_type = "news_editorial"
    /\ ctx.diff.stats = Null
    /\ ctx.diff.latest = Null

\* C20: the score is the clamp to 0..100 of 50 plus the terms for priority,
\* triggered stop condition, high-signal document type, change rate, new
\* domains, extraction changes and number of new URLs, each counted once; the
\* scenario (high, triggered, 6 news_editorial URLs) sums to 135, scores 100 and
\* is urgent.
C20_ScoreIsClampedSumOfTerms ==
    scoreOut # Null =>
        /\ scoreOut.score = Max(0, Min(100, StatedScoreSum(scoreCtx)))
        /\ StatedScenario(scoreCtx) =>
              /\ StatedScoreSum(scoreCtx) = 135
              /\ scoreOut.score = 100
              /\ scoreOut.level = "urgent"

\* C20 witness: the scenario of the specification was scored
C20_Witness ==
    /\ scoreOut # Null
    /\ StatedScenario(scoreCtx)
    /\ scoreOut.score = 100

\* C21: the reasoning is "baseline activity" exactly when no scoring term
\* fired; when any term fired, the +5 terms for low churn and for 1 to 4 new
\* URLs included, the reasoning lists fired terms instead.
C21_BaselineReasoningIffNoTermFired ==
    scoreOut # Null =>
        ((scoreOut.reasoning = <<"baseline activity">>) <=> (ScoreTerms(scoreCtx) = <<>>))

-----------------------------------------------------------------------------
(* Properties of findCorrelations *)

\* The workflow ids a correlation lists
CorrelationIds(c) == {c.workflows[i].workflow_id : i \in 1..Len(c.workflows)}

\* C6: every correlation emitted by findCorrelations lists at least 2 distinct
\* workflow ids.
C6_CorrelationHasTwoDistinctWorkflows ==
    corrOut # Null =>
        \A k \in 1..Len(corrOut.correlations) :
            Cardinality(CorrelationIds(corrOut.correlations[k])) >= 2

\* The ids of the analyzed digests of the call that contributed a URL whose
\* normalized form is u
Contributors(u) ==
    {corrIn.items[i].workflow_id : i \in
        {k \in 1..Len(corrIn.items) :
            /\ Truthy(corrIn.items[k].has_changes)
            /\ corrIn.items[k].new_urls # Null
            /\ \E n \in 1..Len(corrIn.items[k].new_urls.items) :
                  normalizeUrl(corrIn.items[k].new_urls.items[n].url) = u}}

\* The ids of the digests with changes that list the URL string url itself
Listing(url) ==
    {corrIn.items[i].workflow_id : i \in
        {k \in 1..Len(corrIn.items) :
            /\ Truthy(corrIn.items[k].has_changes)
            /\ corrIn.items[k].new_urls # Null
            /\ \E n \in 1..Len(corrIn.items[k].new_urls.items) :
                  corrIn.items[k].new_urls.items[n].url = url}}

\* The correlations of the result whose value is u
CorrelationsFor(u) ==
    {k \in 1..Len(corrOut.correlations) : corrOut.correlations[k].value = u}

\* Every URL string of the digests of the call
UrlsOfCall ==
    UNION {{corrIn.items[k].new_urls.items[n].url :
              n \in 1..Len(corrIn.items[k].new_urls.items)} :
           k \in {m \in 1..Len(corrIn.items) : corrIn.items[m].new_urls # Null}}

\* C18: every normalized URL that at least 2 distinct analyzed workflows
\* contributed yields exactly one correlation, whose value is the normalized
\* URL and whose workflows list names every contributing workflow; when one
\* workflow lists https://example.com/x?utm_source=... and another lists
\* http://example.com/x/, both are named under the value https://example.com/x.
C18_SharedUrlYieldsOneCorrelation ==
    corrOut # Null =>
        /\ \A url \in UrlsOfCall :
              LET u == normalizeUrl(url)
              IN  Cardinality(Contributors(u)) >= 2 =>
                    /\ Cardinality(CorrelationsFor(u)) = 1
                    /\ \A k \in CorrelationsFor(u) :
                          CorrelationIds(corrOut.correlations[k]) = Contributors(u)
        /\ \A a \in Listing(Url("https", "example.com", <<"x">>, {"utm_source"}, "")),
              b \in Listing(Url("http", "example.com", <<"x", "">>, {}, "")) :
              a # b =>
                \E k \in 1..Len(corrOut.correlations) :
                    /\ corrOut.correlations[k].value =
                          Url("https", "example.com", <<"x">>, {}, "")
                    /\ {a, b} \subseteq CorrelationIds(corrOut.correlations[k])
                    /\ \A m \in 1..Len(corrOut.correlations) :
                          corrOut.correlations[m].value = corrOut.correlations[k].value
                            => m = k

\* C18 witness: one workflow listed the https spelling with a tracking
\* parameter, another the http spelling with a trailing slash, and the result
\* holds one correlation naming both
C18_Witness ==
    /\ corrOut # Null
    /\ Len(corrOut.correlations) = 1
    /\ corrOut.correlations[1].value = Url("https", "example.com", <<"x">>, {}, "")
    /\ Cardinality(CorrelationIds(corrOut.correlations[1])) = 2
    /\ \E a \in Listing(Url("https", "example.com", <<"x">>, {"utm_source"}, "")),
          b \in Listing(Url("http", "example.com", <<"x", "">>, {}, "")) : a # b

\* The positions in the list of the call of the digests with changes and at
\* least one new URL
EligiblePositions ==
    {k \in 1..Len(corrIn.items) :
        /\ Truthy(corrIn.items[k].has_changes)
        /\ corrIn.items[k].new_urls # Null
        /\ Len(corrIn.items[k].new_urls.items) >= 1}

\* The first 15 of them, in the order of the list
AnalyzedPositions ==
    {k \in EligiblePositions :
        Cardinality({m \in EligiblePositions : m <= k}) <= 15}

\* C25: findCorrelations analyzes the first 15 eligible digests of its input:
\* workflows_analyzed is their number and at most 15, workflows_analyzed +
\* workflows_skipped is the number of eligible digests, only analyzed digests
\* appear in a correlation, and with fewer than 2 eligible digests the
\* correlation list is empty.
C25_AnalyzesFirstFifteenEligible ==
    corrOut # Null =>
        /\ corrOut.metadata.workflows_analyzed = Cardinality(AnalyzedPositions)
        /\ corrOut.metadata.workflows_analyzed <= 15
        /\ corrOut.metadata.workflows_analyzed + corrOut.metadata.workflows_skipped
             = Cardinality(EligiblePositions)
        /\ \A k \in 1..Len(corrOut.correlations) :
              CorrelationIds(corrOut.correlations[k])
                \subseteq {corrIn.items[m].workflow_id : m \in AnalyzedPositions}
        /\ Cardinality(EligiblePositions) < 2 => corrOut.correlations = <<>>

\* C25 witness: 17 digests of which 16 are eligible; the shared page is listed
\* by an analyzed digest and by the one eligible digest that was skipped, and
\* no correlation is emitted
C25_Witness ==
    /\ corrOut # Null
    /\ Len(corrIn.items) = 17
    /\ corrOut.metadata.workflows_analyzed = 15
    /\ corrOut.metadata.workflows_skipped = 1
    /\ \E a \in AnalyzedPositions, b \in EligiblePositions \ AnalyzedPositions :
          /\ ListsSharedPage(corrIn.items[a])
          /\ ListsSharedPage(corrIn.items[b])
    /\ corrOut.correlations = <<>>

-----------------------------------------------------------------------------
(* Properties of getWorkflowUpdatesDigest *)

\* The call returned the digest of a listing of at least one workflow
Aggregated == dgPc = "returned" /\ workflows # Null /\ Len(workflows.items) > 0

\* The processing of listed workflow i threw: its timeline fetch, its diff
\* fetch, or the computation of its digest
Failing(i) ==
    \/ branch[i].timeline.kind = "throw"
    \/ branch[i].diff.kind = "throw"
    \/ branch[i].timeline.body = Null
    \/ branch[i].diff.body = Null

\* The digest workflow i gets when it is processed alone, from its own two
\* responses
DigestAlone(i) ==
    BuildDigest(workflows.items[i], branch[i].timeline.body, branch[i].diff.body,
                sinceOf(dgParams, dgNow), verboseOf(dgParams))

\* The entries of the response for listed workflow i
EntriesOf(i) ==
    {k \in 1..Len(response.workflows) :
        response.workflows[k].workflow_id = workflows.items[i].id}

\* The one entry of the response for listed workflow i
EntryOf(i) == response.workflows[CHOOSE k \in EntriesOf(i) : TRUE]

OnePerWorkflow ==
    /\ Len(response.workflows) = Len(workflows.items)
    /\ \A i \in 1..Len(workflows.items) : Cardinality(EntriesOf(i)) = 1

\* C1 as stated, for every output format: N digests, one per listed workflow;
\* a failing workflow's digest has a non-null error, has_changes = false,
\* triggered_condition = false and executions_since = 0; every other digest is
\* the one the workflow gets when nothing fails.
C1_Stated_ErrorDigestInEveryFormat ==
    Aggregated =>
        /\ OnePerWorkflow
        /\ \A i \in 1..Len(workflows.items) :
              IF Failing(i)
              THEN /\ Field(EntryOf(i), "error") # Null
                   /\ EntryOf(i).has_changes = Bool(FALSE)
                   /\ EntryOf(i).triggered_condition = FALSE
                   /\ "executions_since" \in DOMAIN EntryOf(i)
                   /\ EntryOf(i).executions_since = 0
              ELSE EntryOf(i) = DigestAlone(i)

\* C1 amended: the response holds N entries, one per listed workflow. In the
\* json, briefing and briefing_llm formats a failing workflow's digest has a
\* non-null error, has_changes = false, triggered_condition = false and
\* executions_since = 0, and every other digest is the one the workflow gets when
\* nothing fails. In the compact format every entry is the compact form of that
\* digest: a failing workflow's entry has has_changes = false and
\* triggered_condition = false and carries neither error nor executions_since.
C1_ErrorIsolatedPerWorkflow ==
    Aggregated =>
        /\ OnePerWorkflow
        /\ \A i \in 1..Len(workflows.items) :
              IF formatOf(dgParams) = "compact"
              THEN /\ DOMAIN EntryOf(i) =
                        {"workflow_id", "workflow_name", "status", "has_changes",
                         "triggered_condition", "change_summary", "new_urls_count"}
                   /\ IF Failing(i)
                      THEN /\ EntryOf(i).has_changes = Bool(FALSE)
                           /\ EntryOf(i).triggered_condition = FALSE
                           /\ EntryOf(i).new_urls_count = 0
                      ELSE EntryOf(i) = CompactWorkflow(DigestAlone(i))
              ELSE IF Failing(i)
              THEN /\ Field(EntryOf(i), "error") # Null
                   /\ EntryOf(i).has_changes = Bool(FALSE)
                   /\ EntryOf(i).triggered_condition = FALSE
                   /\ "executions_since" \in DOMAIN EntryOf(i)
                   /\ EntryOf(i).executions_since = 0
              ELSE EntryOf(i) = DigestAlone(i)

\* Two workflows were listed, one failed in its diff fetch and the other did
\* not fail, and the call returned
C1_Witness ==
    /\ Aggregated
    /\ Len(workflows.items) = 2
    /\ \E i, j \in 1..2 :
          /\ branch[i].diff.kind = "throw"
          /\ ~Failing(j)
          /\ Truthy(EntryOf(j).has_changes)

\* The score and the level of a digest agree with the thresholds
ScoredConsistently(d) ==
    /\ Field(d, "signal_score") # Null
    /\ d.signal_score.value \in 0..100
    /\ "signal_level" \in DOMAIN d
    /\ d.signal_level = (IF d.signal_score.value >= 80 THEN "urgent"
                         ELSE IF d.signal_score.value >= 60 THEN "notable"
                         ELSE IF d.signal_score.value >= 40 THEN "routine"
                         ELSE "noise")

\* C8 as stated: in the json format every digest of the response, the digest of
\* a failed workflow included, carries a signal_score in 0..100 and the level
\* the thresholds assign to it.
C8_Stated_EveryDigestScored ==
    (Aggregated /\ formatOf(dgParams) = "json") =>
        \A k \in 1..Len(response.workflows) : ScoredConsistently(response.workflows[k])

\* C9 as stated: every adjacent pair (a before b) of the workflows list has
\* signal_score(a) > signal_score(b), or equal scores and
\* executions_since(a) >= executions_since(b).
C9_Stated_OrderedBySignalScore ==
    (Aggregated /\ formatOf(dgParams) # "compact") =>
        \A k \in 1..(Len(response.workflows) - 1) :
            LET a == response.workflows[k]
                b == response.workflows[k + 1]
            IN  /\ Field(a, "signal_score") # Null
                /\ Field(b, "signal_score") # Null
                /\ \/ a.signal_score.value > b.signal_score.value
                   \/ /\ a.signal_score.value = b.signal_score.value
                      /\ a.executions_since >= b.executions_since

\* C10 as stated: the response holds at most min(max_workflows or 20, 50)
\* digests.
C10_DigestCountWithinCap ==
    dgPc = "returned" => Len(response.workflows) <= maxWorkflowsOf(dgParams)

\* The digests the callbacks resolved to: how many are triggered, and the
\* executions they count
NoDigestHasChanges ==
    \A i \in 1..Len(workflowDigests) : ~Truthy(workflowDigests[i].has_changes)

TriggeredCount ==
    Cardinality({i \in 1..Len(workflowDigests) : workflowDigests[i].triggered_condition})

ExecutionsTotal == SumExecutions(workflowDigests)

AllQuietSummary == <<<<"All quiet", Len(workflowDigests)>>>>

\* C15 as stated: whenever no digest has has_changes = true, the summary is
\* exactly the all-quiet template and the response carries no correlations.
C15_Stated_AllQuietWithoutChanges ==
    (Aggregated /\ NoDigestHasChanges) =>
        /\ response.summary = AllQuietSummary
        /\ response.correlations = Null

\* C15 amended: whenever no digest has has_changes = true, the response
\* carries no correlations; its summary is exactly the all-quiet template when
\* in addition no digest is triggered and the digests count no execution, and
\* otherwise it is the triggered sentence (when some digest is triggered)
\* followed by the executions sentence (when the digests count executions).
C15_QuietOnlyWithoutActivity ==
    (Aggregated /\ NoDigestHasChanges) =>
        /\ response.correlations = Null
        /\ response.summary =
             (IF TriggeredCount = 0 /\ ExecutionsTotal = 0 THEN AllQuietSummary
              ELSE (IF TriggeredCount > 0
                    THEN <<<<"triggered", TriggeredCount>>>> ELSE <<>>)
                   \o (IF ExecutionsTotal > 0
                       THEN <<<<"total executions", ExecutionsTotal>>>> ELSE <<>>))

\* No digest has changes, none is triggered, and executions were counted: the
\* summary is not the all-quiet template
C15_Witness ==
    /\ Aggregated
    /\ NoDigestHasChanges
    /\ TriggeredCount = 0
    /\ ExecutionsTotal > 0
    /\ response.summary # AllQuietSummary
    /\ response.correlations = Null

\* The listing returned no workflows
ListedNothing == workflows = Null \/ Len(workflows.items) = 0

\* C16: when the listing returns zero workflows the call returns the fixed
\* "no workflows" response (empty workflows list, every count 0) and issues no
\* timeline fetch and no diff fetch.
C16_NoWorkflowsNoFetches ==
    (dgPc = "returned" /\ ListedNothing) =>
        /\ response.summary = <<<<"No workflows found.">>>>
        /\ response.workflows = <<>>
        /\ response.total_workflows = 0
        /\ response.workflows_with_changes = 0
        /\ response.triggered_workflows = 0
        /\ response.total_executions_since = 0
        /\ response.since = sinceOf(dgParams, dgNow)
        /\ requests = {}

\* The listing returned an empty array and the call returned
C16_Witness ==
    /\ dgPc = "returned"
    /\ workflows = Array(<<>>)
    /\ response.total_workflows = 0
    /\ requests = {}

\* The format the caller asked for: json when omitted
RequestedFormat == IF dgParams.format = Null THEN "json" ELSE dgParams.format.value

\* C17 as stated: formatted_output is present exactly when the format is
\* briefing, briefing_llm or compact.
C17_Stated_FormattedExactlyForNarrative ==
    dgPc = "returned" =>
        ("formatted_output" \in DOMAIN response
            <=> RequestedFormat \in {"briefing", "briefing_llm", "compact"})

\* C17 amended: when the listing returns at least one workflow,
\* formatted_output is present exactly when the format is briefing,
\* briefing_llm or compact, and absent for json or an omitted format; the
\* "no workflows" response never carries it, whatever the format.
C17_FormattedOutputByFormat ==
    dgPc = "returned" =>
        IF ListedNothing
        THEN "formatted_output" \notin DOMAIN response
        ELSE ("formatted_output" \in DOMAIN response
                <=> RequestedFormat \in {"briefing", "briefing_llm", "compact"})

\* A briefing of two digests was returned with its formatted output
C17_Witness ==
    /\ Aggregated
    /\ RequestedFormat = "briefing_llm"
    /\ Len(workflows.items) = 2
    /\ "formatted_output" \in DOMAIN response
    /\ Len(response.formatted_output) > 0

\* The diff requests issued for the workflow with this id
DiffRequestsOf(id) == {r \in requests : r[1] = "diff" /\ r[2] = id}

\* C23: the timeline fetch and the diff fetch of a workflow are issued together:
\* once the timeline request of a workflow is out, so is its diff request,
\* whether the timeline request is outstanding, has succeeded or has failed.
C23_DiffIssuedWithTimeline ==
    \A i \in 1..Len(branch) :
        <<"timeline", workflows.items[i].id>> \in requests
            => DiffRequestsOf(workflows.items[i].id) # {}

\* The digest of workflow i as a function of its own listing entry and of the
\* answers to its own two requests
OwnDigest(i) ==
    ProcessWorkflow(workflows.items[i], branch[i].timeline, branch[i].diff,
                    sinceOf(dgParams, dgNow), verboseOf(dgParams))

\* The digests of the listed workflows, each from its own answers, in the
\* order of the listing
OwnDigests == [i \in 1..Len(branch) |-> OwnDigest(i)]

\* C24: the branches share no mutable state: whatever the order in which the
\* requests of the workflows settle, while the callbacks run the digest of
\* every finished branch is the one its own listing entry, timeline and diff
\* give and an unfinished branch has written nothing; once the call has
\* returned, the digests are these in the sorted order and the response is the
\* one these digests give at the time the response was built.
C24_ResponseIndependentOfInterleaving ==
    /\ dgPc = "fanout" =>
          \A i \in 1..Len(branch) :
              IF branch[i].pc = "done"
              THEN workflowDigests[i] = OwnDigest(i)
              ELSE workflowDigests[i] = Null
    /\ (dgPc = "returned" /\ Len(branch) > 0) =>
          /\ workflowDigests = OrderedDigests(OwnDigests)
          /\ \E clock \in ClocksAfter(dgNow) :
                response = BuildResponse(OwnDigests, dgParams, dgNow, clock)

\* C24 witness: the second workflow of the listing finished with a digest of its
\* own while the first still waits for its timeline
C24_Witness ==
    /\ dgPc = "fanout"
    /\ Len(branch) = 2
    /\ branch[1].pc = "timeline"
    /\ branch[2].pc = "done"
    /\ branch[2].diff # Pending
    /\ workflowDigests[2].workflow_id = workflows.items[2].id
    /\ Truthy(workflowDigests[2].has_changes)

\* The digest of listed workflow i, whose callback has returned: at the
\* position of the workflow until the digests are sorted, and the one with its
\* id afterwards
DigestFor(i) ==
    IF dgPc = "returned"
    THEN workflowDigests[CHOOSE k \in 1..Len(workflowDigests) :
                            workflowDigests[k].workflow_id = workflows.items[i].id]
    ELSE workflowDigests[i]

\* C26: for every workflow processed without failure, triggered_condition is
\* true exactly when the status of the workflow is completed and its
\* last-execution time is present and strictly after the watermark; nothing
\* else of the workflow, of its timeline or of its diff plays a part.
C26_TriggeredIffCompletedAfterWatermark ==
    \A i \in 1..Len(branch) :
        (branch[i].pc = "done" /\ DigestFor(i).error = Null) =>
            (DigestFor(i).triggered_condition
               <=> /\ workflows.items[i].status = "completed"
                   /\ workflows.items[i].last_execution_at # Null
                   /\ workflows.items[i].last_execution_at.value
                        > (IF dgParams.since = Null THEN dgNow - 24 ELSE dgParams.since.value))

\* C26 witness: a completed workflow whose last execution is at the watermark
\* itself was processed and is not triggered
C26_Witness ==
    /\ dgPc = "returned"
    /\ Len(branch) >= 1
    /\ branch[1].pc = "done"
    /\ DigestFor(1).error = Null
    /\ workflows.items[1].status = "completed"
    /\ workflows.items[1].last_execution_at # Null
    /\ dgParams.since # Null
    /\ workflows.items[1].last_execution_at = dgParams.since
    /\ ~DigestFor(1).triggered_condition

\* The caller passed include_inactive = false or left it out
InactiveExcluded ==
    IF dgParams.include_inactive = Null THEN TRUE ELSE ~dgParams.include_inactive.value

\* The digest carries the reason of the +30 term
ScoredAsTriggered(d) ==
    /\ "signal_reasoning" \in DOMAIN d
    /\ \E k \in 1..Len(d.signal_reasoning) :
          d.signal_reasoning[k] = "stop condition triggered"

\* The remote honoured the status filter of the query: every workflow it
\* listed has the status asked for
FilterHonoured ==
    \/ workflows = Null
    \/ \A i \in 1..Len(workflows.items) : workflows.items[i].status = listQuery.status

\* C29: with include_inactive false or omitted the listing is requested with
\* the status filter active, and when the remote honoured the filter no
\* digest is triggered or scored as triggered and triggered_workflows is 0: a
\* triggered stop condition is reachable only with include_inactive = true.
C29_TriggeredOnlyWithInactive ==
    (dgPc \notin {"idle", "start"} /\ InactiveExcluded) =>
        /\ listQuery.status = "active"
        /\ FilterHonoured =>
              /\ \A i \in 1..Len(workflowDigests) :
                    workflowDigests[i] # Null =>
                        /\ ~workflowDigests[i].triggered_condition
                        /\ ~ScoredAsTriggered(workflowDigests[i])
              /\ dgPc = "returned" => response.triggered_workflows = 0

\* C29 witness: a call with include_inactive = false returned the digest of a
\* listed workflow, none triggered
C29_Witness ==
    /\ dgPc = "returned"
    /\ dgParams.include_inactive = Bool(FALSE)
    /\ Len(workflowDigests) >= 1
    /\ FilterHonoured
    /\ DigestFor(1).error = Null
    /\ workflows.items[1].status = "active"
    /\ response.triggered_workflows = 0

\* C30: for every workflow processed without failure, change_summary is one of
\* the no-change texts ("No changes detected", "No changes") exactly when
\* has_changes is false; a digest that has changes because of an older diff
\* entry does not carry a no-change text.
C30_SummaryAgreesWithHasChanges ==
    \A i \in 1..Len(branch) :
        (branch[i].pc = "done" /\ DigestFor(i).error = Null) =>
            ((DigestFor(i).change_summary
                 \in {Text("No changes detected"), Text("No changes")})
               <=> ~Truthy(DigestFor(i).has_changes))

-----------------------------------------------------------------------------
(* Properties of generateBriefingMarkdown *)

\* The briefing is the all-quiet one
BriefingAllQuiet ==
    /\ Len(briefOut.formatted_output) = 1
    /\ briefOut.formatted_output[1].section = "all_quiet"

\* The all-quiet section lists the last-execution time of the first 5 digests
\* at most, and has a "more" line exactly for the digests beyond 5
QuietSectionAsStated ==
    LET sec == briefOut.formatted_output[1]
        n == Len(briefOut.workflows)
    IN  /\ Len(sec.times) = (IF n < 5 THEN n ELSE 5)
        /\ \A i \in 1..Len(sec.times) :
              sec.times[i][1] = briefOut.workflows[i].workflow_name
        /\ sec.more = (IF n > 5 THEN n - 5 ELSE 0)

NoBriefDigestHasChanges ==
    \A i \in 1..Len(briefOut.workflows) : ~Truthy(briefOut.workflows[i].has_changes)

NoBriefDigestTriggered ==
    \A i \in 1..Len(briefOut.workflows) : ~briefOut.workflows[i].triggered_condition

\* C27 as stated: for a briefing format, whenever no digest has
\* has_changes = true, also when some digest is triggered, the output is the
\* all-quiet section, with at most 5 last-execution times and a "more" line
\* exactly when there are more than 5 digests.
C27_Stated_AllQuietBriefingWithoutChanges ==
    (briefOut # Null /\ NoBriefDigestHasChanges) =>
        (BriefingAllQuiet /\ QuietSectionAsStated)

\* C27: for a briefing format the output is the all-quiet section exactly when
\* no digest has has_changes = true and no digest has triggered_condition =
\* true; the section lists the last-execution time of the first 5 digests at
\* most and has a "more" line exactly when there are more than 5 digests, for
\* the number of digests minus 5.
C27_AllQuietBriefingWithoutActivity ==
    briefOut # Null =>
        /\ BriefingAllQuiet <=> (NoBriefDigestHasChanges /\ NoBriefDigestTriggered)
        /\ BriefingAllQuiet => QuietSectionAsStated

\* C27 witness: an all-quiet briefing of 6 digests lists 5 times and 1 more
C27_Witness ==
    /\ briefOut # Null
    /\ Len(briefOut.workflows) = 6
    /\ BriefingAllQuiet
    /\ Len(briefOut.formatted_output[1].times) = 5
    /\ briefOut.formatted_output[1].more = 1

\* The names a section of the briefing renders
RenderedIn(sec) ==
    IF sec.section \in {"urgent", "notable"}
    THEN {sec.items[i].name : i \in 1..Len(sec.items)}
    ELSE IF sec.section \in {"routine", "noise"}
    THEN {sec.names[i] : i \in 1..Len(sec.names)}
    ELSE {}

\* The place of a section in the fixed order
SectionRank(name) ==
    CASE name = "urgent" -> 1
      [] name = "notable" -> 2
      [] name = "routine" -> 3
      [] name = "noise" -> 4
      [] name = "correlations" -> 5
      [] OTHER -> 0

\* C28: when the briefing is not the all-quiet one, every digest of the
\* response, a digest built for a failed workflow included, is rendered in
\* exactly one of the four level sections; the sections present follow the
\* order urgent, notable, routine, noise, then the correlation section, which
\* is present exactly when a correlation exists and shows at most 5 of them.
C28_EveryDigestInOneSection ==
    (briefOut # Null /\ ~BriefingAllQuiet) =>
        LET out == briefOut.formatted_output
            found == IF briefOut.correlations = Null THEN <<>>
                     ELSE briefOut.correlations.items
        IN  /\ \A i \in 1..Len(briefOut.workflows) :
                  Cardinality({k \in 1..Len(out) :
                      briefOut.workflows[i].workflow_name \in RenderedIn(out[k])}) = 1
            /\ \A k \in 1..Len(out) : SectionRank(out[k].section) >= 1
            /\ \A k \in 1..(Len(out) - 1) :
                  SectionRank(out[k].section) < SectionRank(out[k + 1].section)
            /\ (\E k \in 1..Len(out) : out[k].section = "correlations")
                  <=> Len(found) > 0
            /\ \A k \in 1..Len(out) :
                  out[k].section = "correlations" =>
                      /\ Len(out[k].shown) = (IF Len(found) < 5 THEN Len(found) ELSE 5)
                      /\ out[k].count = Len(found)

-----------------------------------------------------------------------------
(* Properties of normalizeUrl *)

\* C11: normalizeUrl is idempotent: normalizing what normalizeUrl returned
\* returns it unchanged.
C11_NormalizeIdempotent ==
    normAgain # Null => normAgain = normOut

=============================================================================
